---- MODULE Spec2Model ----
(***************************************************************************)
(* A model of the va-ts MPEG-TS demuxer (src/src/demuxer.rs) together with *)
(* the byte-level parsers it calls (packet.rs, header.rs, pid.rs,          *)
(* section/*.rs, pes.rs).  Buffers are sequences of bytes (0..255); Rust's *)
(* 0-based index i is the TLA+ index i + 1, see B.                         *)
(*                                                                         *)
(* One step of the model is one call of Demuxer::demux on one raw buffer.  *)
(* A Rust panic (slice index out of range, integer underflow) is the       *)
(* result "Panic"; the demuxer is not used again after it.                 *)
(***************************************************************************)
EXTENDS Integers, Sequences, FiniteSets, TLC

VARIABLES
    offset,     \* Demuxer.offset
    pat,        \* Demuxer.pat : Tables
    pmt,        \* Demuxer.pmt : Tables
    sdt,        \* Demuxer.sdt : Tables
    eit,        \* Demuxer.eit : Tables
    pmt_pids,   \* Demuxer.pmt_pids : sequence of <<PID, builded>>
    packets,    \* Demuxer.packets : PID -> ES accumulator
    raw,        \* the buffer given to the last demux call
    result,     \* what the last demux call returned
    emitted,    \* the events the last demux call gave to the sink, in order
    calls       \* number of demux calls so far

vars == <<offset, pat, pmt, sdt, eit, pmt_pids, packets, raw, result, emitted, calls>>

(***************************************************************************)
(* Bounds of the model.                                                    *)
(***************************************************************************)
MaxCalls == 5

(***************************************************************************)
(* Bytes.                                                                  *)
(***************************************************************************)
B(buf, i) == buf[i + 1]

Seek(buf, off) == SubSeq(buf, off + 1, Len(buf))

RECURSIVE BitOr(_, _)
BitOr(a, b) ==
    IF a = 0 THEN b
    ELSE IF b = 0 THEN a
    ELSE (IF a % 2 = 1 \/ b % 2 = 1 THEN 1 ELSE 0) + 2 * BitOr(a \div 2, b \div 2)

(***************************************************************************)
(* Results (error.rs).                                                     *)
(***************************************************************************)
Ok == [kind |-> "Ok"]
ErrBuf(actual, expected) == [kind |-> "Buf", actual |-> actual, expected |-> expected]
ErrSyncByte(got) == [kind |-> "SyncByte", got |-> got]
Panic == [kind |-> "Panic"]

(***************************************************************************)
(* pid.rs : a PID is <<tag, value>>.                                       *)
(***************************************************************************)
PID_from(d) ==
    CASE d = 0 -> <<"PAT", d>>
      [] d = 1 -> <<"CAT", d>>
      [] d = 2 -> <<"TSDT", d>>
      [] d \in 3..15 -> <<"Reserved", d>>
      [] d = 16 -> <<"NIT", d>>
      [] d = 17 -> <<"SDT", d>>
      [] d = 18 -> <<"EIT", d>>
      [] d = 19 -> <<"RST", d>>
      [] d = 20 -> <<"TDT", d>>
      [] d = 21 -> <<"NetworkSynchronization", d>>
      [] d = 22 -> <<"RNT", d>>
      [] d \in 23..27 -> <<"Reserved", d>>
      [] d = 28 -> <<"InbandSignalling", d>>
      [] d = 29 -> <<"Measurement", d>>
      [] d = 30 -> <<"DIT", d>>
      [] d = 31 -> <<"SIT", d>>
      [] d = 8191 -> <<"NULL", d>>
      [] OTHER -> <<"Other", d>>

PID_is_null(pid) == pid[1] = "NULL"
PID_is_other(pid) == pid[1] = "Other"

(***************************************************************************)
(* packet.rs, header.rs.                                                   *)
(***************************************************************************)
SZ == 188
SYNC_BYTE == 71
HEADER_SZ_TS == 4

MutPacket_validate_lt(buf) ==
    IF Len(buf) < SZ THEN ErrBuf(Len(buf), SZ)
    ELSE IF buf[1] # SYNC_BYTE THEN ErrSyncByte(buf[1])
    ELSE Ok

Packet_validate(buf) ==
    IF Len(buf) # SZ THEN ErrBuf(Len(buf), SZ)
    ELSE IF buf[1] # SYNC_BYTE THEN ErrSyncByte(buf[1])
    ELSE Ok

Header_pusi(buf) == (B(buf, 1) \div 64) % 2 = 1
Header_pid(buf) == PID_from((B(buf, 1) % 32) * 256 + B(buf, 2))
Header_got_adaptation(buf) == (B(buf, 3) \div 32) % 2 = 1
Adaptation_sz(buf) == 1 + B(buf, 0)

\* a payload position that skips the pointer_field for every consumer
MutBuf_pos_payload_pointer_always(buf, is_section) ==
    LET pos == IF Header_got_adaptation(buf)
                 THEN HEADER_SZ_TS + Adaptation_sz(Seek(buf, HEADER_SZ_TS))
                 ELSE HEADER_SZ_TS
    IN IF Header_pusi(buf)
         THEN IF pos >= Len(buf)
                THEN [panic |-> TRUE, pos |-> pos]
                ELSE [panic |-> FALSE, pos |-> pos + B(buf, pos) + 1]
         ELSE [panic |-> FALSE, pos |-> pos]

\* [panic, pos]: self.buf[pos] is read when PUSI is set for a section consumer
buf_pos_payload(buf, is_section) ==
    LET pos == IF Header_got_adaptation(buf)
                 THEN HEADER_SZ_TS + Adaptation_sz(Seek(buf, HEADER_SZ_TS))
                 ELSE HEADER_SZ_TS
    IN IF Header_pusi(buf) /\ is_section
         THEN IF pos >= Len(buf)
                THEN [panic |-> TRUE, pos |-> pos]
                ELSE [panic |-> FALSE, pos |-> pos + B(buf, pos) + 1]
         ELSE [panic |-> FALSE, pos |-> pos]

\* [res, buf]: buf_try_seek(buf_pos_payload(is_section))
buf_payload(buf, is_section) ==
    LET p == buf_pos_payload(buf, is_section)
    IN IF p.panic THEN [res |-> Panic, buf |-> <<>>]
       ELSE IF Len(buf) <= p.pos THEN [res |-> ErrBuf(Len(buf), SZ), buf |-> <<>>]
       ELSE [res |-> Ok, buf |-> Seek(buf, p.pos)]

buf_payload_section(buf) == buf_payload(buf, TRUE)

buf_payload_pes(buf) == buf_payload(buf, FALSE)

(***************************************************************************)
(* header.rs : Adaptation, built on the bytes that follow the 4-byte       *)
(* header; packet.rs : Packet::adaptation and Packet::pcr.  An Option of a *)
(* PCR is [some, buf], buf the slice the PCR is built on.                  *)
(***************************************************************************)
Adaptation_HEADER_SZ == 1
Adaptation_HEADER_FULL_SZ == 2

Adaptation_validate(buf) ==
    IF Len(buf) < Adaptation_HEADER_SZ THEN ErrBuf(Len(buf), Adaptation_HEADER_SZ)
    ELSE IF Len(buf) < Adaptation_sz(buf) THEN ErrBuf(Len(buf), Adaptation_sz(buf))
    ELSE Ok

Adaptation_pcr_flag(buf) == (B(buf, 1) \div 16) % 2 = 1

\* [res, some, buf]: buf[1] and buf[2..] are read whatever buf[0] is
Adaptation_pcr(buf) ==
    IF Len(buf) < Adaptation_HEADER_FULL_SZ THEN [res |-> Panic, some |-> FALSE, buf |-> <<>>]
    ELSE IF Adaptation_pcr_flag(buf)
           THEN [res |-> Ok, some |-> TRUE, buf |-> Seek(buf, Adaptation_HEADER_FULL_SZ)]
           ELSE [res |-> Ok, some |-> FALSE, buf |-> <<>>]

\* [res, some, buf]: None without adaptation field, else the error of
\* buf_try_seek or of Adaptation::try_new, else Adaptation::pcr
Packet_pcr(buf) ==
    IF ~Header_got_adaptation(buf) THEN [res |-> Ok, some |-> FALSE, buf |-> <<>>]
    ELSE IF Len(buf) <= HEADER_SZ_TS
           THEN [res |-> ErrBuf(Len(buf), SZ), some |-> FALSE, buf |-> <<>>]
    ELSE IF Adaptation_validate(Seek(buf, HEADER_SZ_TS)).kind # "Ok"
           THEN [res |-> Adaptation_validate(Seek(buf, HEADER_SZ_TS)), some |-> FALSE, buf |-> <<>>]
    ELSE Adaptation_pcr(Seek(buf, HEADER_SZ_TS))

(***************************************************************************)
(* section/traits.rs, pat.rs, pmt.rs, sdt.rs, eit.rs : the section header. *)
(* TableID::from(u8) is one-to-one, so a TableID is its byte.  A           *)
(* SubtableID is a tuple that starts with its variant's name.              *)
(***************************************************************************)
HEADER_SZ == 3
HEADER_MAX_SECTION_LENGTH == 1021
SYNTAX_SECTION_SZ == 5
CRC32_SZ == 4
PAT_HEADER_FULL_SZ == HEADER_SZ + SYNTAX_SECTION_SZ

table_id(buf) == B(buf, 0)
section_length(buf) == (B(buf, 1) % 16) * 256 + B(buf, 2)
section_sz(buf) == HEADER_SZ + section_length(buf)
table_id_extension(buf) == B(buf, 3) * 256 + B(buf, 4)
version_number(buf) == (B(buf, HEADER_SZ + 2) \div 2) % 32
section_number(buf) == B(buf, HEADER_SZ + 3)
last_section_number(buf) == B(buf, HEADER_SZ + 4)

SDT_original_network_id(buf) ==
    BitOr(B(buf, HEADER_SZ + SYNTAX_SECTION_SZ), B(buf, HEADER_SZ + SYNTAX_SECTION_SZ + 1))
EIT_transport_stream_id(buf) ==
    BitOr(B(buf, HEADER_SZ + SYNTAX_SECTION_SZ), B(buf, HEADER_SZ + SYNTAX_SECTION_SZ + 1))
EIT_original_network_id(buf) ==
    BitOr(B(buf, HEADER_SZ + SYNTAX_SECTION_SZ + 2), B(buf, HEADER_SZ + SYNTAX_SECTION_SZ + 3))

PAT_subtable_id(buf) ==
    <<"PAT", table_id(buf), table_id_extension(buf), version_number(buf)>>
PMT_subtable_id(buf) ==
    <<"PMT", table_id(buf), table_id_extension(buf), version_number(buf)>>
SDT_subtable_id(buf) ==
    <<"SDT", table_id(buf), table_id_extension(buf), SDT_original_network_id(buf),
      version_number(buf)>>
EIT_subtable_id(buf) ==
    <<"EIT", table_id(buf), table_id_extension(buf), EIT_transport_stream_id(buf),
      EIT_original_network_id(buf), version_number(buf)>>

\* the version_number field of a SubtableID (its last component)
SubtableID_version(id) == id[Len(id)]

\* PAT::try_new, PAT::validate
PAT_try_new(buf) ==
    IF Len(buf) < PAT_HEADER_FULL_SZ THEN ErrBuf(Len(buf), PAT_HEADER_FULL_SZ) ELSE Ok

\* the bytes the PUSI branch of demux_section reads from the payload, per kind:
\* up to last_section_number (index 7), SDT up to index 9, EIT up to index 11
header_bytes_read(kind) ==
    CASE kind = "SDT" -> HEADER_SZ + SYNTAX_SECTION_SZ + 2
      [] kind = "EIT" -> HEADER_SZ + SYNTAX_SECTION_SZ + 4
      [] OTHER -> HEADER_SZ + SYNTAX_SECTION_SZ

\* (id, sz, section_number, last_section_number) of demux_section
section_header(kind, buf) ==
    LET none == [res |-> Ok, id |-> <<>>, sz |-> 0, number |-> 0, last |-> 0]
        res == IF kind = "PAT" /\ PAT_try_new(buf).kind # "Ok" THEN PAT_try_new(buf)
               ELSE IF Len(buf) < header_bytes_read(kind) THEN Panic
               ELSE Ok
    IN IF res.kind # "Ok" THEN [none EXCEPT !.res = res]
       ELSE [res |-> Ok,
             id |-> CASE kind = "PAT" -> PAT_subtable_id(buf)
                      [] kind = "SDT" -> SDT_subtable_id(buf)
                      [] kind = "EIT" -> EIT_subtable_id(buf)
                      [] kind = "PMT" -> PMT_subtable_id(buf),
             sz |-> section_sz(buf),
             number |-> section_number(buf),
             last |-> last_section_number(buf)]

(***************************************************************************)
(* demuxer.rs : Section, Sections, Table, Tables.                          *)
(* A SectionRef is named by <<SubtableID, number>>: a section is never     *)
(* removed from its table and its number is unique in it.                  *)
(* Buf is the sequence of bytes written; Buf::sz is its length.            *)
(***************************************************************************)
None == <<>>

Section_new(id, number, sz) == [table_id |-> id, number |-> number, sz |-> sz, buf |-> <<>>]
Section_sz_need(s) == s.sz - Len(s.buf)
\* a section that counts as done as soon as it holds a byte
MutSection_done_nonempty(s) == Len(s.buf) > 0

Section_done(s) == Section_sz_need(s) = 0

\* index of the section with that number, 0 when there is none
Sections_get_mut(secs, number) ==
    IF \E i \in 1..Len(secs) : secs[i].number = number
      THEN CHOOSE i \in 1..Len(secs) :
               /\ secs[i].number = number
               /\ \A j \in 1..(i - 1) : secs[j].number # number
      ELSE 0

\* push that leaves the vector in arrival order
MutSections_push_nosort(secs, s) == Append(secs, s)

\* push, then sort by number
Sections_push(secs, s) ==
    LET lower == SelectSeq(secs, LAMBDA x : x.number <= s.number)
        upper == SelectSeq(secs, LAMBDA x : x.number > s.number)
    IN lower \o <<s>> \o upper

Table_new(last) == [last_section_number |-> last, sections |-> <<>>]

Table_done(t) ==
    LET n == Len(t.sections)
    IN IF n = 0 THEN FALSE
       ELSE /\ t.sections[1].number = 0
            /\ t.sections[n].number = t.last_section_number
            /\ Section_done(t.sections[1])
            /\ Section_done(t.sections[n])

Tables_default == [map |-> <<>>, current |-> None]

\* the section a SectionRef points to
Deref(tables, ref) ==
    LET secs == tables.map[ref[1]].sections
    IN secs[Sections_get_mut(secs, ref[2])]

\* a PUSI branch that keeps one table only: a new SubtableID replaces the map
MutOpen_section_evict(tables, h) ==
    LET map1 == IF h.id \in DOMAIN tables.map
                  THEN tables.map
                  ELSE (h.id :> Table_new(h.last))
        secs == map1[h.id].sections
        idx == Sections_get_mut(secs, h.number)
        secs1 == IF idx # 0
                   THEN [secs EXCEPT ![idx] = [@ EXCEPT !.buf = <<>>, !.sz = h.sz]]
                   ELSE Sections_push(secs, Section_new(h.id, h.number, h.sz))
    IN [map |-> [map1 EXCEPT ![h.id] = [@ EXCEPT !.sections = secs1]],
        current |-> <<h.id, h.number>>]

\* a PUSI branch that pushes a new section without looking for a stored one
MutOpen_section_always_push(tables, h) ==
    LET map1 == IF h.id \in DOMAIN tables.map
                  THEN tables.map
                  ELSE tables.map @@ (h.id :> Table_new(h.last))
        secs1 == Sections_push(map1[h.id].sections, Section_new(h.id, h.number, h.sz))
    IN [map |-> [map1 EXCEPT ![h.id] = [@ EXCEPT !.sections = secs1]],
        current |-> <<h.id, h.number>>]

\* a PUSI branch that sets the new size of a stored section and keeps its bytes
MutOpen_section_no_reset(tables, h) ==
    LET map1 == IF h.id \in DOMAIN tables.map
                  THEN tables.map
                  ELSE tables.map @@ (h.id :> Table_new(h.last))
        secs == map1[h.id].sections
        idx == Sections_get_mut(secs, h.number)
        secs1 == IF idx # 0
                   THEN [secs EXCEPT ![idx] = [@ EXCEPT !.sz = h.sz]]
                   ELSE Sections_push(secs, Section_new(h.id, h.number, h.sz))
    IN [map |-> [map1 EXCEPT ![h.id] = [@ EXCEPT !.sections = secs1]],
        current |-> <<h.id, h.number>>]

\* a PUSI branch that empties a stored section and keeps its old size
MutOpen_section_keep_sz(tables, h) ==
    LET map1 == IF h.id \in DOMAIN tables.map
                  THEN tables.map
                  ELSE tables.map @@ (h.id :> Table_new(h.last))
        secs == map1[h.id].sections
        idx == Sections_get_mut(secs, h.number)
        secs1 == IF idx # 0
                   THEN [secs EXCEPT ![idx] = [@ EXCEPT !.buf = <<>>]]
                   ELSE Sections_push(secs, Section_new(h.id, h.number, h.sz))
    IN [map |-> [map1 EXCEPT ![h.id] = [@ EXCEPT !.sections = secs1]],
        current |-> <<h.id, h.number>>]

\* demux_section, PUSI branch after the header is parsed (lines 397-417)
open_section(tables, h) ==
    LET map1 == IF h.id \in DOMAIN tables.map
                  THEN tables.map
                  ELSE tables.map @@ (h.id :> Table_new(h.last))
        secs == map1[h.id].sections
        idx == Sections_get_mut(secs, h.number)
        secs1 == IF idx # 0
                   THEN [secs EXCEPT ![idx] = [@ EXCEPT !.buf = <<>>, !.sz = h.sz]]
                   ELSE Sections_push(secs, Section_new(h.id, h.number, h.sz))
    IN [map |-> [map1 EXCEPT ![h.id] = [@ EXCEPT !.sections = secs1]],
        current |-> <<h.id, h.number>>]

\* an append that keeps the stuffing bytes after the section
MutWrite_current_no_cut(tables, buf) ==
    LET id == tables.current[1]
        secs == tables.map[id].sections
        idx == Sections_get_mut(secs, tables.current[2])
    IN [tables EXCEPT !.map = [@ EXCEPT ![id] =
            [@ EXCEPT !.sections = [secs EXCEPT ![idx] = [@ EXCEPT !.buf = @ \o buf]]]]]

\* demux_section, lines 421-433: append to the current section, cut to sz_need
write_current(tables, buf) ==
    LET id == tables.current[1]
        secs == tables.map[id].sections
        idx == Sections_get_mut(secs, tables.current[2])
        need == Section_sz_need(secs[idx])
        data == IF Len(buf) > need THEN SubSeq(buf, 1, need) ELSE buf
    IN [tables EXCEPT !.map = [@ EXCEPT ![id] =
            [@ EXCEPT !.sections = [secs EXCEPT ![idx] = [@ EXCEPT !.buf = @ \o data]]]]]

OnTable(id, table) == [kind |-> "table", id |-> id, table |-> table]

\* demux_section, lines 435-445
emit_if_done(tables) ==
    LET section == Deref(tables, tables.current)
        table == tables.map[section.table_id]
    IN IF Section_done(section) /\ Table_done(table)
         THEN <<OnTable(section.table_id, table)>>
         ELSE <<>>

\* a write branch that opens a section of its own when there is no current one
MutDemux_section_current_open_orphan(tables, buf) ==
    IF tables.current = None
      THEN [res |-> Ok,
            tables |-> [tables EXCEPT !.map = @ @@ (<<"PAT", 255, 0, 0>> :>
                          [last_section_number |-> 0,
                           sections |-> <<Section_new(<<"PAT", 255, 0, 0>>, 0, Len(buf))>>])],
            events |-> <<>>]
      ELSE [res |-> Ok, tables |-> write_current(tables, buf),
            events |-> emit_if_done(write_current(tables, buf))]

\* demux_section, lines 420-448: tables is the Tables after the PUSI branch
demux_section_current(tables, buf) ==
    IF tables.current = None
      THEN [res |-> Ok, tables |-> tables, events |-> <<>>]
      ELSE [res |-> Ok, tables |-> write_current(tables, buf),
            events |-> emit_if_done(write_current(tables, buf))]

\* demux_section, lines 356-418: h is the header the PUSI branch parses
demux_section_pusi(tables, pkt, buf, h) ==
    IF Header_pusi(pkt) /\ h.res.kind # "Ok"
      THEN [res |-> h.res, tables |-> tables, events |-> <<>>]
      ELSE demux_section_current(IF Header_pusi(pkt) THEN open_section(tables, h) ELSE tables,
                                 buf)

\* demux_section, line 354 on: pl is the result of buf_payload_section
demux_section_payload(tables, kind, pkt, pl) ==
    IF pl.res.kind # "Ok" THEN [res |-> pl.res, tables |-> tables, events |-> <<>>]
    ELSE demux_section_pusi(tables, pkt, pl.buf, section_header(kind, pl.buf))

\* demux_section for the Tables of one kind: [res, tables, events]
demux_section(tables, kind, pkt) ==
    demux_section_payload(tables, kind, pkt, buf_payload(pkt, TRUE))

(***************************************************************************)
(* pat.rs : PAT::buf_programs, Cursor<Program>, Program::pid.              *)
(***************************************************************************)
PROGRAM_SZ == 4

\* [panic, buf]: rght - CRC32_SZ underflows or lft > rght
PAT_buf_programs(buf) ==
    LET lft == PAT_HEADER_FULL_SZ
        r0 == IF Len(buf) < HEADER_SZ THEN 0 ELSE HEADER_SZ + section_length(buf)
        r1 == IF r0 >= Len(buf) THEN Len(buf) ELSE r0
        rght == r1 - CRC32_SZ
    IN IF Len(buf) < HEADER_SZ \/ rght < lft
         THEN [panic |-> TRUE, buf |-> <<>>]
         ELSE [panic |-> FALSE, buf |-> SubSeq(buf, lft + 1, rght)]

Program_number(b) == B(b, 0) * 256 + B(b, 1)
Program_pid_raw(b) == (B(b, 2) % 32) * 256 + B(b, 3)
\* pat::PID : <<"Network", v>> or <<"ProgramMap", v>>
Program_pid(b) ==
    IF Program_number(b) = 0 THEN <<"Network", Program_pid_raw(b)>>
    ELSE <<"ProgramMap", Program_pid_raw(b)>>

\* impl From<pat::PID> for TsPID
TsPID_from_pat(p) == <<"Other", p[2]>>

\* the rows of Cursor<Program> kept by filter(is_program_map), as TsPIDs;
\* a last row shorter than a Program panics in Program::pid
RECURSIVE PAT_program_map_pids(_)
PAT_program_map_pids(b) ==
    IF b = <<>> THEN [panic |-> FALSE, pids |-> <<>>]
    ELSE IF Len(b) < PROGRAM_SZ THEN [panic |-> TRUE, pids |-> <<>>]
    ELSE LET p == Program_pid(b)
             rest == PAT_program_map_pids(IF Len(b) > PROGRAM_SZ THEN Seek(b, PROGRAM_SZ) ELSE <<>>)
         IN [panic |-> rest.panic,
             pids |-> (IF p[1] = "ProgramMap" THEN <<TsPID_from_pat(p)>> ELSE <<>>) \o rest.pids]

\* PAT::new(raw).programs() ... of one section buffer: [panic, pids]
PAT_section_pids(buf) ==
    LET pb == PAT_buf_programs(buf)
    IN IF pb.panic THEN [panic |-> TRUE, pids |-> <<>>] ELSE PAT_program_map_pids(pb.buf)

(***************************************************************************)
(* pmt.rs : PMT::buf_streams, Cursor<Stream>, Stream::pid.                 *)
(***************************************************************************)
PMT_HEADER_SPECIFIC_SZ == 4
PMT_HEADER_FULL_SZ == HEADER_SZ + SYNTAX_SECTION_SZ + PMT_HEADER_SPECIFIC_SZ
STREAM_HEADER_SZ == 5

PMT_program_info_length(buf) ==
    BitOr(B(buf, HEADER_SZ + SYNTAX_SECTION_SZ + 2) % 16, B(buf, HEADER_SZ + SYNTAX_SECTION_SZ + 3))

PMT_buf_streams(buf) ==
    IF Len(buf) < PMT_HEADER_FULL_SZ THEN [panic |-> TRUE, buf |-> <<>>]
    ELSE LET lft == PMT_HEADER_FULL_SZ + PMT_program_info_length(buf)
             r0 == HEADER_SZ + section_length(buf)
             r1 == IF r0 >= Len(buf) THEN Len(buf) ELSE r0
             rght == r1 - CRC32_SZ
         IN IF rght < lft THEN [panic |-> TRUE, buf |-> <<>>]
            ELSE [panic |-> FALSE, buf |-> SubSeq(buf, lft + 1, rght)]

Stream_pid(b) == (B(b, 1) % 32) * 256 + B(b, 2)
Stream_es_info_length(b) == (B(b, 3) % 16) * 256 + B(b, 4)
Stream_sz(b) == STREAM_HEADER_SZ + Stream_es_info_length(b)

\* the PIDs of the rows of Cursor<Stream>: [panic, pids]
RECURSIVE PMT_stream_pids(_)
PMT_stream_pids(b) ==
    IF b = <<>> THEN [panic |-> FALSE, pids |-> <<>>]
    ELSE IF Len(b) < STREAM_HEADER_SZ THEN [panic |-> TRUE, pids |-> <<>>]
    ELSE LET rest == PMT_stream_pids(IF Len(b) > Stream_sz(b) THEN Seek(b, Stream_sz(b)) ELSE <<>>)
         IN [panic |-> rest.panic, pids |-> <<PID_from(Stream_pid(b))>> \o rest.pids]

PMT_section_pids(buf) ==
    LET sb == PMT_buf_streams(buf)
    IN IF sb.panic THEN [panic |-> TRUE, pids |-> <<>>] ELSE PMT_stream_pids(sb.buf)

(***************************************************************************)
(* demuxer.rs : PMTPids, build_pmt_pids, build_packets.                    *)
(***************************************************************************)
PMTPids_has(pp, pid) == \E i \in 1..Len(pp) : pp[i][1] = pid

\* push_uniq without the lookup
MutPMTPids_push_always(pp, pid) == Append(pp, <<pid, FALSE>>)

PMTPids_push_uniq(pp, pid) == IF PMTPids_has(pp, pid) THEN pp ELSE Append(pp, <<pid, FALSE>>)

\* "None", or "Some" with the flag
PMTPids_is_packet_builded(pp, pid) ==
    IF PMTPids_has(pp, pid)
      THEN [some |-> TRUE, v |-> pp[CHOOSE i \in 1..Len(pp) :
                                      pp[i][1] = pid /\ \A j \in 1..(i - 1) : pp[j][1] # pid][2]]
      ELSE [some |-> FALSE, v |-> FALSE]

PMTPids_set_is_packet_builded(pp, pid, v) ==
    IF PMTPids_has(pp, pid)
      THEN LET i == CHOOSE i \in 1..Len(pp) :
                        pp[i][1] = pid /\ \A j \in 1..(i - 1) : pp[j][1] # pid
           IN [pp EXCEPT ![i] = <<pid, v>>]
      ELSE pp

RECURSIVE PushAll(_, _)
PushAll(pp, pids) ==
    IF pids = <<>> THEN pp ELSE PushAll(PMTPids_push_uniq(pp, Head(pids)), Tail(pids))

\* the section buffers of the tables of a map, the tables taken in the order ord
RECURSIVE SectionBufs(_, _)
SectionBufs(map, ord) ==
    IF ord = <<>> THEN <<>>
    ELSE LET secs == map[Head(ord)].sections
         IN [i \in 1..Len(secs) |-> secs[i].buf] \o SectionBufs(map, Tail(ord))

\* the orders in which a HashMap with these keys may be iterated
Orders(keys) ==
    {o \in [1..Cardinality(keys) -> keys] : \A i, j \in DOMAIN o : i # j => o[i] # o[j]}

\* [panic, pmt_pids]: ord is the iteration order of self.pat.map.  The rows
\* are pushed one by one, so a panic leaves the rows before it pushed.
RECURSIVE build_pmt_pids_bufs(_, _)
build_pmt_pids_bufs(pp, bufs) ==
    IF bufs = <<>> THEN [panic |-> FALSE, pmt_pids |-> pp]
    ELSE LET r == PAT_section_pids(Head(bufs))
         IN IF r.panic THEN [panic |-> TRUE, pmt_pids |-> PushAll(pp, r.pids)]
            ELSE build_pmt_pids_bufs(PushAll(pp, r.pids), Tail(bufs))

build_pmt_pids(pp, patTables, ord) == build_pmt_pids_bufs(pp, SectionBufs(patTables.map, ord))

\* ES accumulator (demuxer::Packet)
Packet_new(pid) ==
    [pid |-> pid, offset |-> 0, pts |-> None, dts |-> None, buf |-> <<>>, started |-> FALSE]

RECURSIVE InsertAll(_, _)
InsertAll(pk, pids) ==
    IF pids = <<>> THEN pk
    ELSE InsertAll(IF Head(pids) \in DOMAIN pk THEN pk ELSE pk @@ (Head(pids) :> Packet_new(Head(pids))),
                   Tail(pids))

\* [panic, packets]: an accumulator is inserted for one row after the other,
\* so a panic leaves those of the rows before it inserted
RECURSIVE build_packets_bufs(_, _)
build_packets_bufs(pk, bufs) ==
    IF bufs = <<>> THEN [panic |-> FALSE, packets |-> pk]
    ELSE LET r == PMT_section_pids(Head(bufs))
         IN IF r.panic THEN [panic |-> TRUE, packets |-> InsertAll(pk, r.pids)]
            ELSE build_packets_bufs(InsertAll(pk, r.pids), Tail(bufs))

\* ord is the iteration order of self.pmt.map
build_packets(pk, pmtTables, ord) == build_packets_bufs(pk, SectionBufs(pmtTables.map, ord))

(***************************************************************************)
(* pes.rs : the PES header as demux_packets reads it.  A Timestamp is the   *)
(* five bytes it is made of.                                               *)
(***************************************************************************)
PES_HEADER_SZ == 6
PES_HEADER_SZ_1 == 3
PTS_OFFSET_LFT == 9
TIMESTAMP_SZ == 5

Some(x) == <<x>>

\* StreamID::from(buf[3]).is1()
StreamID_is1(d) == d \notin {188, 190, 191, 240, 241, 255, 242, 248}

PES_is1(buf) == StreamID_is1(B(buf, 3))
PES_flag(buf) == B(buf, 7) \div 64

\* the call of the PUSI branch of demux_packets that panics on a PES header
\* cut short, "" when none does: pts() reads buf[3], buf[7] and buf[9..14],
\* dts() buf[14..19], buf_seek_payload() buf[9..] or buf[6..]
PES_panic_at(buf) ==
    IF Len(buf) < 4 THEN "pts"
    ELSE IF ~PES_is1(buf) THEN (IF Len(buf) < PES_HEADER_SZ THEN "seek" ELSE "")
    ELSE IF Len(buf) < 8 THEN "pts"
    ELSE IF PES_flag(buf) \in {2, 3} /\ Len(buf) < PTS_OFFSET_LFT + TIMESTAMP_SZ THEN "pts"
    ELSE IF PES_flag(buf) = 3 /\ Len(buf) < PTS_OFFSET_LFT + 2 * TIMESTAMP_SZ THEN "dts"
    ELSE IF Len(buf) < PES_HEADER_SZ + PES_HEADER_SZ_1 THEN "seek"
    ELSE ""

PES_pts(buf) ==
    IF PES_is1(buf) /\ PES_flag(buf) \in {2, 3}
      THEN Some(SubSeq(buf, PTS_OFFSET_LFT + 1, PTS_OFFSET_LFT + TIMESTAMP_SZ))
      ELSE None

PES_dts(buf) ==
    IF PES_is1(buf) /\ PES_flag(buf) = 3
      THEN Some(SubSeq(buf, PTS_OFFSET_LFT + TIMESTAMP_SZ + 1, PTS_OFFSET_LFT + 2 * TIMESTAMP_SZ))
      ELSE None

PES_buf_seek_payload(buf) ==
    IF PES_is1(buf) THEN Seek(buf, PES_HEADER_SZ + PES_HEADER_SZ_1) ELSE Seek(buf, PES_HEADER_SZ)

OnPacket(packet) ==
    [kind |-> "packet", pid |-> packet.pid, offset |-> packet.offset,
     pts |-> packet.pts, dts |-> packet.dts, buf |-> packet.buf]

(***************************************************************************)
(* u64 and f64 values.  A natural number is the sequence of its bits,      *)
(* least significant first, without leading zeros: the values of           *)
(* rational.rs exceed 2^31.  A finite positive f64 is [m, e], the number   *)
(* m * 2^e with m of at most 53 bits; f64 operations are the exact result  *)
(* rounded to nearest, ties to even (the exponent range plays no part for  *)
(* the values met here).                                                   *)
(***************************************************************************)
RECURSIVE Big(_)
Big(n) == IF n = 0 THEN <<>> ELSE <<n % 2>> \o Big(n \div 2)

\* b without its leading zeros
Norm(b) ==
    IF \A i \in 1..Len(b) : b[i] = 0 THEN <<>>
    ELSE SubSeq(b, 1, CHOOSE i \in 1..Len(b) : b[i] = 1 /\ \A j \in (i + 1)..Len(b) : b[j] = 0)

BitAt(b, i) == IF i < Len(b) THEN b[i + 1] ELSE 0
Shl(b, k) == IF b = <<>> THEN <<>> ELSE [i \in 1..k |-> 0] \o b
Shr(b, k) == IF k >= Len(b) THEN <<>> ELSE SubSeq(b, k + 1, Len(b))
BigOr(a, b) ==
    Norm([i \in 1..(IF Len(a) > Len(b) THEN Len(a) ELSE Len(b)) |->
            IF BitAt(a, i - 1) = 1 \/ BitAt(b, i - 1) = 1 THEN 1 ELSE 0])

\* The sums, products and quotients below split the range of bits in two
\* halves, so that the depth of the evaluation grows with the logarithm of
\* the length.

Front(q) == SubSeq(q, 1, Len(q) - 1)
Last(q) == q[Len(q)]

\* the sum bits of the bits lo..hi-1 of a and b with carry c in, then the carry out
RECURSIVE BigAddRange(_, _, _, _, _), BigAddHigh(_, _, _, _, _)
BigAddHigh(a, b, mid, hi, low) == Front(low) \o BigAddRange(a, b, mid, hi, Last(low))

BigAddRange(a, b, lo, hi, c) ==
    IF hi - lo = 1
      THEN <<(BitAt(a, lo) + BitAt(b, lo) + c) % 2, (BitAt(a, lo) + BitAt(b, lo) + c) \div 2>>
      ELSE BigAddHigh(a, b, (lo + hi) \div 2, hi, BigAddRange(a, b, lo, (lo + hi) \div 2, c))

BigAdd(a, b) ==
    IF a = <<>> THEN b
    ELSE IF b = <<>> THEN a
    ELSE Norm(BigAddRange(a, b, 0, IF Len(a) > Len(b) THEN Len(a) ELSE Len(b), 0))

\* a times the bits lo..hi-1 of b, in place
RECURSIVE BigMulRange(_, _, _, _)
BigMulRange(a, b, lo, hi) ==
    IF hi - lo = 1 THEN (IF b[lo + 1] = 1 THEN Shl(a, lo) ELSE <<>>)
    ELSE BigAdd(BigMulRange(a, b, lo, (lo + hi) \div 2), BigMulRange(a, b, (lo + hi) \div 2, hi))

BigMul(a, b) == IF a = <<>> \/ b = <<>> THEN <<>> ELSE BigMulRange(a, b, 0, Len(b))

\* long division of a by the number d < 2^30 over the bits hi-1 down to lo,
\* r the remainder so far: the quotient bits from the top one down, then
\* the remainder
RECURSIVE BigDivRange(_, _, _, _, _), BigDivLow(_, _, _, _, _)
BigDivLow(a, d, lo, mid, high) == Front(high) \o BigDivRange(a, d, lo, mid, Last(high))

BigDivRange(a, d, lo, hi, r) ==
    IF hi - lo = 1
      THEN IF 2 * r + a[hi] >= d THEN <<1, 2 * r + a[hi] - d>> ELSE <<0, 2 * r + a[hi]>>
      ELSE BigDivLow(a, d, lo, (lo + hi) \div 2, BigDivRange(a, d, (lo + hi) \div 2, hi, r))

Reverse(q) == [i \in 1..Len(q) |-> q[Len(q) + 1 - i]]

BigDivRem(qr) == [q |-> Norm(Reverse(Front(qr))), r |-> Last(qr)]

BigDiv(a, d) == IF a = <<>> THEN [q |-> <<>>, r |-> 0] ELSE BigDivRem(BigDivRange(a, d, 0, Len(a), 0))

RECURSIVE BigToInt(_)
BigToInt(b) == IF b = <<>> THEN 0 ELSE b[1] + 2 * BigToInt(Tail(b))

\* n * 2^e, with sticky when bits below those of n were lost, rounded to digits bits
RoundTo(n, e, sticky, digits) ==
    IF Len(n) <= digits THEN [m |-> n, e |-> e]
    ELSE [m |-> IF /\ n[Len(n) - digits] = 1
                   /\ \/ sticky
                      \/ \E i \in 1..(Len(n) - digits - 1) : n[i] = 1
                      \/ n[Len(n) - digits + 1] = 1
                  THEN BigAdd(Shr(n, Len(n) - digits), <<1>>)
                  ELSE Shr(n, Len(n) - digits),
          e |-> e + Len(n) - digits]

F64_MANTISSA_DIGITS == 53
\* the rounding of f32
MutF32_round(n, e, sticky) == RoundTo(n, e, sticky, 24)

F64_round(n, e, sticky) == RoundTo(n, e, sticky, F64_MANTISSA_DIGITS)

\* u64 / u128 as f64
F64_from(n) == F64_round(n, 0, FALSE)

\* x * y
F64_mul(x, y) == F64_round(BigMul(x.m, y.m), x.e + y.e, FALSE)

\* x / y for a divisor y below 2^30: the quotient of x.m * 2^k by y.m has
\* more than 54 bits for k = 55 + the length of y.m
F64_div_by(x, y, k, d) ==
    IF x.m = <<>> THEN x
    ELSE F64_round(BigDiv(Shl(x.m, k), d).q, x.e - y.e - k, BigDiv(Shl(x.m, k), d).r # 0)

F64_div(x, y) == F64_div_by(x, y, F64_MANTISSA_DIGITS + 2 + Len(y.m), BigToInt(y.m))

U64_MAX == [i \in 1..64 |-> 1]

\* f64 as u64: the fraction is dropped, and what does not fit gives u64::MAX
F64_as_u64_bits(n) == IF Len(n) > 64 THEN U64_MAX ELSE n

F64_as_u64(x) == F64_as_u64_bits(IF x.e >= 0 THEN Shl(x.m, x.e) ELSE Shr(x.m, 0 - x.e))

(***************************************************************************)
(* rational.rs, pes.rs : Timestamp, pcr.rs : PCR.                          *)
(***************************************************************************)
TB_27MHZ == [num |-> 1, den |-> 27000000]
TB_90KHZ == [num |-> 1, den |-> 90000]
TB_1NS == [num |-> 1, den |-> 1000000000]

\* rescale: num and den are u128 products, then f64 arithmetic
rescale(v, src, dst) ==
    F64_as_u64(F64_mul(F64_from(v),
                       F64_div(F64_from(Big(src.num * dst.den)), F64_from(Big(src.den * dst.num)))))

\* d & mask for a byte d and a mask of neighbouring bits lo..hi
Masked(d, lo, hi) == ((d \div (2 ^ lo)) % (2 ^ (hi - lo + 1))) * (2 ^ lo)

\* Timestamp::value, 90kHz
Timestamp_value(buf) ==
    BigOr(BigOr(BigOr(BigOr(Shl(Big(Masked(B(buf, 0), 1, 3)), 29),
                            Shl(Big(B(buf, 1)), 22)),
                      Shl(Big(Masked(B(buf, 2), 1, 7)), 14)),
                Shl(Big(B(buf, 3)), 7)),
          Big(Masked(B(buf, 4), 1, 7) \div 2))

\* Timestamp::ns
Timestamp_ns(buf) == rescale(Timestamp_value(buf), TB_90KHZ, TB_1NS)

PCR_SZ == 6

PCR_base(buf) ==
    BigOr(BigOr(BigOr(BigOr(Shl(Big(B(buf, 0)), 25), Shl(Big(B(buf, 1)), 17)),
                      Shl(Big(B(buf, 2)), 9)),
                Shl(Big(B(buf, 3)), 1)),
          Big(Masked(B(buf, 4), 7, 7) \div 128))

PCR_ext(buf) == BitOr(Masked(B(buf, 4), 0, 0) * 256, B(buf, 5))

\* PCR::value, 27MHz
PCR_value(buf) == BigAdd(BigMul(PCR_base(buf), Big(300)), Big(PCR_ext(buf)))

\* PCR::ns
PCR_ns(buf) == rescale(PCR_value(buf), TB_27MHZ, TB_1NS)

(***************************************************************************)
(* demuxer.rs : demux_tables, demux_packets, demux.  D is the demuxer,     *)
(* a record of its fields; every operator gives the demuxer after the      *)
(* call, what was returned and the events given to the sink.               *)
(***************************************************************************)
Out(D, res, handled, events) == [d |-> D, res |-> res, handled |-> handled, events |-> events]

\* a routing that takes every other PID for a PMT PID, registered or not
MutSection_kind_no_registry(D, pid) ==
    CASE pid[1] \in {"PAT", "SDT", "EIT"} -> pid[1]
      [] pid[1] = "Other" -> "PMT"
      [] OTHER -> ""

\* a routing that asks the registry first, by PID value
MutSection_kind_registry_first(D, pid) ==
    CASE \E i \in 1..Len(D.pmt_pids) : D.pmt_pids[i][1][2] = pid[2] -> "PMT"
      [] OTHER -> IF pid[1] \in {"PAT", "SDT", "EIT"} THEN pid[1] ELSE ""

\* the Tables field a PID is routed to by demux_tables, "" when none
section_kind(D, pid) ==
    CASE pid[1] \in {"PAT", "SDT", "EIT"} -> pid[1]
      [] pid[1] = "Other" /\ D.pmt_pids # <<>> /\ PMTPids_has(D.pmt_pids, pid) -> "PMT"
      [] OTHER -> ""

Tables_of(D, kind) ==
    CASE kind = "PAT" -> D.pat [] kind = "SDT" -> D.sdt [] kind = "EIT" -> D.eit [] kind = "PMT" -> D.pmt

With_tables(D, kind, t) ==
    CASE kind = "PAT" -> [D EXCEPT !.pat = t]
      [] kind = "SDT" -> [D EXCEPT !.sdt = t]
      [] kind = "EIT" -> [D EXCEPT !.eit = t]
      [] kind = "PMT" -> [D EXCEPT !.pmt = t]

\* a PAT arm that builds the registry anew after every PAT packet
MutPat_post_rebuild(D, ord) ==
    [panic |-> build_pmt_pids(<<>>, D.pat, ord).panic,
     d |-> [D EXCEPT !.pmt_pids = build_pmt_pids(<<>>, D.pat, ord).pmt_pids, !.packets = <<>>]]

\* demux_tables, PID::PAT arm after demux_section returned Ok (lines 477-482)
pat_post(D, ord) ==
    IF D.pmt_pids = <<>>
      THEN LET r == build_pmt_pids(<<>>, D.pat, ord)
           IN [panic |-> r.panic, d |-> [D EXCEPT !.pmt_pids = r.pmt_pids, !.packets = <<>>]]
      ELSE [panic |-> FALSE, d |-> D]

\* demux_tables, PID::Other arm after demux_section returned Ok (lines 494-504)
pmt_post(D, pid, ord) ==
    IF PMTPids_is_packet_builded(D.pmt_pids, pid).v
      THEN [panic |-> FALSE, d |-> D]
      ELSE LET r == build_packets(D.packets, D.pmt, ord)
           IN IF r.panic THEN [panic |-> TRUE, d |-> [D EXCEPT !.packets = r.packets]]
              ELSE [panic |-> FALSE,
                    d |-> [D EXCEPT !.packets = r.packets,
                                    !.pmt_pids = PMTPids_set_is_packet_builded(@, pid, TRUE)]]

\* demux_tables after demux_section returned Ok: post is what the arm did next
demux_tables_post(s, post) ==
    IF post.panic THEN Out(post.d, Panic, FALSE, s.events)
    ELSE Out(post.d, Ok, TRUE, s.events)

\* demux_tables, the arms that call demux_section; s is what it returned
demux_tables_section(D, kind, pid, ord, s) ==
    IF s.res.kind # "Ok" THEN Out(With_tables(D, kind, s.tables), s.res, FALSE, s.events)
    ELSE demux_tables_post(s, CASE kind = "PAT" -> pat_post(With_tables(D, kind, s.tables), ord)
                                [] kind = "PMT" -> pmt_post(With_tables(D, kind, s.tables), pid, ord)
                                [] OTHER -> [panic |-> FALSE, d |-> With_tables(D, kind, s.tables)])

\* demux_tables, lines 466-511: the packet is valid, D.offset is advanced
demux_tables_pid(D, buf, ord, pid, kind) ==
    IF PID_is_null(pid) THEN Out(D, Ok, TRUE, <<>>)
    ELSE IF kind # ""
      THEN demux_tables_section(D, kind, pid, ord, demux_section(Tables_of(D, kind), kind, buf))
    ELSE IF PID_is_other(pid) /\ D.pmt_pids # <<>>
      THEN Out(D, Ok, FALSE, <<>>)
    ELSE Out(D, Ok, TRUE, <<>>)

\* demux_tables, lines 463-465: D.offset is advanced
demux_tables_packet(D, buf, ord, v) ==
    IF v.kind # "Ok" THEN Out(D, v, FALSE, <<>>)
    ELSE demux_tables_pid(D, buf, ord, Header_pid(buf), section_kind(D, Header_pid(buf)))

demux_tables(D0, buf, ord) ==
    demux_tables_packet([D0 EXCEPT !.offset = @ + Len(buf)], buf, ord, Packet_validate(buf))

\* Timestamp::ns of the five-byte fields <<m, 0, 1, 0, l>> with small values,
\* as pairs <<field, ns>>, worked out once
SmallTimestamps ==
    {<<t, Timestamp_ns(t)>> : t \in {<<m, 0, 1, 0, 1 + 2 * v>> : m \in {17, 33, 49}, v \in 0..7}}

\* Option<Timestamp>.map(Duration::from): a Duration is its nanoseconds
Packet_timestamp(o) ==
    IF o = None THEN None
    ELSE IF \E p \in SmallTimestamps : p[1] = o[1]
      THEN Some((CHOOSE p \in SmallTimestamps : p[1] = o[1])[2])
    ELSE Some(Timestamp_ns(o[1]))

\* demux_packets, lines 545-551: the accumulator after the PUSI branch.  The
\* fields are assigned one after the other, so a panic leaves those
\* assigned before it.
Packet_pusi(packet, off, pl) ==
    LET p0 == [packet EXCEPT !.buf = <<>>, !.started = TRUE, !.offset = @ + off]
    IN CASE PES_panic_at(pl) = "pts" -> p0
         [] PES_panic_at(pl) = "dts" -> [p0 EXCEPT !.pts = Packet_timestamp(PES_pts(pl))]
         [] PES_panic_at(pl) = "seek" ->
              [p0 EXCEPT !.pts = Packet_timestamp(PES_pts(pl)), !.dts = Packet_timestamp(PES_dts(pl))]
         [] OTHER ->
              [p0 EXCEPT !.pts = Packet_timestamp(PES_pts(pl)), !.dts = Packet_timestamp(PES_dts(pl)),
                         !.buf = PES_buf_seek_payload(pl)]

\* demux_packets that replaces pts and dts before it gives the accumulator to the sink
MutDemux_packets_payload_late_emit(D, buf, pid, packet, pl, ev) ==
    IF ~Header_pusi(buf)
      THEN Out([D EXCEPT !.packets[pid].buf = IF packet.started THEN @ \o pl ELSE @],
               Ok, TRUE, <<>>)
    ELSE IF PES_panic_at(pl) # ""
      THEN Out([D EXCEPT !.packets[pid] = Packet_pusi(packet, D.offset + Len(buf) - Len(pl), pl)],
               Panic, FALSE, ev)
    ELSE Out([D EXCEPT !.packets[pid] = Packet_pusi(packet, D.offset + Len(buf) - Len(pl), pl)],
             Ok, TRUE,
             [i \in DOMAIN ev |-> [ev[i] EXCEPT !.pts = Packet_timestamp(PES_pts(pl)),
                                                !.dts = Packet_timestamp(PES_dts(pl))]])

\* demux_packets that writes the payload whether the accumulator has started or not
MutDemux_packets_payload_write_unstarted(D, buf, pid, packet, pl, ev) ==
    IF ~Header_pusi(buf)
      THEN Out([D EXCEPT !.packets[pid].buf = @ \o pl], Ok, TRUE, <<>>)
    ELSE IF PES_panic_at(pl) # ""
      THEN Out([D EXCEPT !.packets[pid] = Packet_pusi(packet, D.offset + Len(buf) - Len(pl), pl)],
               Panic, FALSE, ev)
    ELSE Out([D EXCEPT !.packets[pid] = Packet_pusi(packet, D.offset + Len(buf) - Len(pl), pl)],
             Ok, TRUE, ev)

\* demux_packets, lines 537-558: packet is the accumulator of the PID, pl the
\* payload, ev the on_packet the PUSI branch gives
demux_packets_payload(D, buf, pid, packet, pl, ev) ==
    IF ~Header_pusi(buf)
      THEN Out([D EXCEPT !.packets[pid].buf = IF packet.started THEN @ \o pl ELSE @],
               Ok, TRUE, <<>>)
    ELSE IF PES_panic_at(pl) # ""
      THEN Out([D EXCEPT !.packets[pid] = Packet_pusi(packet, D.offset + Len(buf) - Len(pl), pl)],
               Panic, FALSE, ev)
    ELSE Out([D EXCEPT !.packets[pid] = Packet_pusi(packet, D.offset + Len(buf) - Len(pl), pl)],
             Ok, TRUE, ev)

\* demux_packets that gives the accumulator to the sink on every PUSI
MutDemux_packets_pid_emit_empty(D, buf, v, pid, pl) ==
    IF v.kind # "Ok" THEN Out(D, v, FALSE, <<>>)
    ELSE IF PID_is_null(pid) /\ ~PID_is_other(pid) /\ D.pmt_pids # <<>> THEN Out(D, Ok, TRUE, <<>>)
    ELSE IF pid \notin DOMAIN D.packets THEN Out(D, Ok, TRUE, <<>>)
    ELSE IF pl.res.kind # "Ok" THEN Out(D, pl.res, FALSE, <<>>)
    ELSE demux_packets_payload(D, buf, pid, D.packets[pid], pl.buf,
                               IF Header_pusi(buf) THEN <<OnPacket(D.packets[pid])>> ELSE <<>>)

\* demux_packets, lines 518-535: D.offset is advanced
demux_packets_pid(D, buf, v, pid, pl) ==
    IF v.kind # "Ok" THEN Out(D, v, FALSE, <<>>)
    ELSE IF PID_is_null(pid) /\ ~PID_is_other(pid) /\ D.pmt_pids # <<>> THEN Out(D, Ok, TRUE, <<>>)
    ELSE IF pid \notin DOMAIN D.packets THEN Out(D, Ok, TRUE, <<>>)
    ELSE IF pl.res.kind # "Ok" THEN Out(D, pl.res, FALSE, <<>>)
    ELSE demux_packets_payload(D, buf, pid, D.packets[pid], pl.buf,
                               IF Header_pusi(buf) /\ D.packets[pid].buf # <<>>
                                 THEN <<OnPacket(D.packets[pid])>> ELSE <<>>)

demux_packets(D0, buf) ==
    demux_packets_pid([D0 EXCEPT !.offset = @ + Len(buf)], buf, Packet_validate(buf),
                      Header_pid(buf), buf_payload(buf, FALSE))

\* Demuxer::demux, lines 452-456: t is what demux_tables did
demux_handled(t, buf) ==
    IF t.res.kind # "Ok" \/ t.handled THEN t
    ELSE demux_packets(t.d, buf)

\* Demuxer::demux
demux(D, buf, ord) == demux_handled(demux_tables(D, buf, ord), buf)

(***************************************************************************)
(* The buffers given to demux.  They are built byte by byte as a           *)
(* multiplexer would: a 4-byte TS header, an optional adaptation field of  *)
(* stuffing, on PUSI section packets a pointer_field, then the payload,    *)
(* filled up to 188 bytes with 0xFF.                                       *)
(***************************************************************************)
Fill(n) == [i \in 1..n |-> 255]

Pad(s) == s \o Fill(SZ - Len(s))

TsHeader(pidv, pusiFlag, adapt) ==
    <<SYNC_BYTE, (IF pusiFlag THEN 64 ELSE 0) + pidv \div 256, pidv % 256,
      16 + (IF adapt THEN 32 ELSE 0)>>

\* a section packet: PUSI, pointer_field, the section's first bytes
SectionStart(pidv, pointer, bytes) ==
    Pad(TsHeader(pidv, TRUE, FALSE) \o <<pointer>> \o Fill(pointer) \o bytes)

\* a section packet without PUSI
SectionCont(pidv, bytes) == Pad(TsHeader(pidv, FALSE, FALSE) \o bytes)

\* an elementary-stream packet whose payload is exactly bytes: the rest is
\* an adaptation field of stuffing
EsPacket(pidv, pusiFlag, bytes) ==
    LET L == SZ - HEADER_SZ_TS - 1 - Len(bytes)
    IN TsHeader(pidv, pusiFlag, TRUE) \o <<L, 0>> \o Fill(L - 1) \o bytes

Crc == <<222, 173, 190, 239>>

\* a section with syntax section: table_id, section_syntax_indicator = 1,
\* section_length, table_id_extension, version_number, current_next = 1,
\* section_number, last_section_number, body, CRC32
Psi(tid, ext, version, number, last, body) ==
    LET sl == SYNTAX_SECTION_SZ + Len(body) + CRC32_SZ
    IN <<tid, 176 + sl \div 256, sl % 256, ext \div 256, ext % 256,
         192 + version * 2 + 1, number, last>> \o body \o Crc

ProgramEntry(number, pidv) == <<number \div 256, number % 256, 224 + pidv \div 256, pidv % 256>>

StreamEntry(type, pidv) == <<type, 224 + pidv \div 256, pidv % 256, 240, 0>>

PidPAT == 0
PidNIT == 16
PidSDT == 17
PidEIT == 18
PidNULL == 8191
\* PIDs of the PMTs and of the elementary stream, in the range PID::Other
PmtPid(k) == 256 + k
EsPid(k) == 512 + k

\* PAT version 0: the network PID and one program
SecPatA == Psi(0, 1, 0, 0, 0, ProgramEntry(0, PidNIT) \o ProgramEntry(1, PmtPid(0)))
\* PAT version 1: one program on another PID
SecPatB == Psi(0, 1, 1, 0, 0, ProgramEntry(1, PmtPid(1)))
\* PAT version 2: two programs, sent in two packets
SecPatC == Psi(0, 1, 2, 0, 0, ProgramEntry(1, PmtPid(0)) \o ProgramEntry(2, PmtPid(2)))

\* SDT, three sections 0..2 (service loop left empty)
SecSdt(number) == Psi(66, 1, 0, number, 2, <<0, 1, 255>>)
\* EIT, two sections 0..1 (event loop left empty)
SecEit(number) == Psi(78, 7, 0, number, 1, <<0, 1, 0, 1, 1, 78>>)
\* PMT of program 1: PCR PID, program_info_length 0, one H.264 stream
SecPmt == Psi(2, 1, 0, 0, 0, <<224 + EsPid(0) \div 256, EsPid(0) % 256, 240, 0>> \o StreamEntry(27, EsPid(0)))

\* the pointer_field that leaves room for only n bytes of section in the packet
PointerFor(n) == SZ - HEADER_SZ_TS - 1 - n

\* bytes of SecPatC and of SecSdt(1) carried by their first packet
PatCHead == PAT_HEADER_FULL_SZ + PROGRAM_SZ + CRC32_SZ
SdtHead == header_bytes_read("SDT") + 2

\* a PES header with a PTS, stream_id 0xE0, and four bytes of data
PesUnit(tag) ==
    <<0, 0, 1, 224, 0, 0, 128, 128, 5, 33, 0, 1, 0, 1 + 2 * tag>> \o <<tag, tag, tag, tag>>

PktPatA == SectionStart(PidPAT, 0, SecPatA)
PktPatB == SectionStart(PidPAT, 3, SecPatB)
PktPatCHead == SectionStart(PidPAT, PointerFor(PatCHead), SubSeq(SecPatC, 1, PatCHead))
PktPatCTail == SectionCont(PidPAT, Seek(SecPatC, PatCHead))
PktSdt0 == SectionStart(PidSDT, 0, SecSdt(0))
PktSdt1Head == SectionStart(PidSDT, PointerFor(SdtHead), SubSeq(SecSdt(1), 1, SdtHead))
PktSdt1Tail == SectionCont(PidSDT, Seek(SecSdt(1), SdtHead))
PktSdt2 == SectionStart(PidSDT, 0, SecSdt(2))
PktEit0 == SectionStart(PidEIT, 0, SecEit(0))
PktEit1 == SectionStart(PidEIT, 0, SecEit(1))
PktPmt == SectionStart(PmtPid(0), 0, SecPmt)
PktEsStart == EsPacket(EsPid(0), TRUE, PesUnit(1))
PktEsCont == EsPacket(EsPid(0), FALSE, <<9, 9, 9, 9>>)
PktNull == Pad(TsHeader(PidNULL, FALSE, FALSE))
PktBadSync == [PktNull EXCEPT ![1] = 72]

Packets188 ==
    {PktPatA, PktPatB, PktPatCHead, PktPatCTail,
     PktSdt0, PktSdt1Head, PktSdt1Tail, PktSdt2, PktEit0, PktEit1,
     PktPmt, PktEsStart, PktEsCont, PktNull, PktBadSync}

\* buffers that are not 188 bytes long
Misframed == {<<>>, <<SYNC_BYTE>>, SubSeq(PktPatA, 1, SZ - 1), PktPatA \o <<255>>}

\* PAT version 0 sent again with one entry less: the SubtableID and the
\* section_number of SecPatA, another section_length
SecPatAShort == Psi(0, 1, 0, 0, 0, ProgramEntry(1, PmtPid(0)))
\* PAT version 3: two programs on the same PMT PID
SecPatD == Psi(0, 1, 3, 0, 0, ProgramEntry(1, PmtPid(0)) \o ProgramEntry(2, PmtPid(0)))

PktPatAShort == SectionStart(PidPAT, 0, SecPatAShort)
PktPatD == SectionStart(PidPAT, 0, SecPatD)
\* an EIT section whose section_number is above its last_section_number
PktEit2 == SectionStart(PidEIT, 0, SecEit(2))
\* a packet without PUSI on the PMT PID, no section open
PktPmtCont == SectionCont(PmtPid(0), <<>>)

\* SecPatC in three packets: after PktPatCHead, two bytes in a packet that an
\* adaptation field fills up, then the rest
PatCMid == CRC32_SZ \div 2
PktPatCMid == EsPacket(PidPAT, FALSE, SubSeq(SecPatC, PatCHead + 1, PatCHead + PatCMid))
PktPatCEnd == SectionCont(PidPAT, Seek(SecPatC, PatCHead + PatCMid))

\* a PAT in two sections: section 0 lists the network PID only, section 1
\* lists two programs on one PMT PID
SecPatE0 == Psi(0, 1, 4, 0, 1, ProgramEntry(0, PidNIT))
SecPatE1 == Psi(0, 1, 4, 1, 1, ProgramEntry(1, PmtPid(0)) \o ProgramEntry(2, PmtPid(0)))
PktPatE0 == SectionStart(PidPAT, 0, SecPatE0)
PktPatE1 == SectionStart(PidPAT, 0, SecPatE1)
\* the first PAT with section_syntax_indicator 0
PktPatNoSyntax == SectionStart(PidPAT, 0, [SecPatA EXCEPT ![2] = @ - 128])
\* a PUSI packet on PID 0 whose adaptation field fills the packet
PktPatNoPayload == EsPacket(PidPAT, TRUE, <<>>)
\* PAT version 0 again, section 0 shorter and announcing a section 1
PktPatARefresh == SectionStart(PidPAT, 0, Psi(0, 1, 0, 0, 1, ProgramEntry(1, PmtPid(0))))
\* PAT version 6 whose program loop ends with a row of 2 bytes after two
\* whole rows
PktPatShortRow ==
    SectionStart(PidPAT, 0, Psi(0, 1, 6, 0, 0, ProgramEntry(1, PmtPid(0)) \o ProgramEntry(2, PmtPid(1))
                                                \o <<0, 3>>))
\* the version of the two-section PAT again, as a single section
PktPatESingle == SectionStart(PidPAT, 0, Psi(0, 1, 4, 0, 0, ProgramEntry(1, PmtPid(0))))
\* the packets on PID 0
PacketsPat ==
    {PktPatA, PktPatB, PktPatCHead, PktPatCTail, PktPatD, PktPatE0, PktPatE1, PktPatNoSyntax,
     PktPatNoPayload, PktPatARefresh, PktPatShortRow, PktPatESingle}

\* the elementary stream: a second PMT version that lists one more stream,
\* a second access unit, and a PUSI packet that is all adaptation field
SecPmtB == Psi(2, 1, 1, 0, 0, <<224 + EsPid(0) \div 256, EsPid(0) % 256, 240, 0>>
                              \o StreamEntry(27, EsPid(0)) \o StreamEntry(15, EsPid(1)))
PktPmtB == SectionStart(PmtPid(0), 0, SecPmtB)
PktEsStartB == EsPacket(EsPid(0), TRUE, PesUnit(2))
PktEsNoPayload == EsPacket(EsPid(0), TRUE, <<>>)
\* a PES header with a PTS and a DTS, stream_id 0xE0, and four bytes of data
PesUnitDts(tag) ==
    <<0, 0, 1, 224, 0, 0, 128, 192, 10, 49, 0, 1, 0, 1 + 2 * tag, 17, 0, 1, 0, 1>>
      \o <<tag, tag, tag, tag>>
PktEsStartDts == EsPacket(EsPid(0), TRUE, PesUnitDts(3))
\* an access unit whose first three bytes are 00 00 02
PktEsBadStart == EsPacket(EsPid(0), TRUE, [PesUnit(4) EXCEPT ![3] = 2])
\* an access unit cut after its PTS field, the flags announcing a DTS
PktEsShortDts == EsPacket(EsPid(0), TRUE, SubSeq(PesUnitDts(5), 1, 14))
PacketsEs ==
    {PktPatA, PktPatB, PktPmt, PktPmtB, PktPmtCont,
     PktEsStart, PktEsStartB, PktEsStartDts, PktEsBadStart, PktEsCont, PktEsNoPayload,
     PktEsShortDts}

\* two programs whose PMTs, on two PIDs, take two packets each
PmtHead == HEADER_SZ + SYNTAX_SECTION_SZ + PMT_HEADER_SPECIFIC_SZ
SecPmtTwo == Psi(2, 2, 0, 0, 0, <<224 + EsPid(1) \div 256, EsPid(1) % 256, 240, 0>>
                                \o StreamEntry(15, EsPid(1)))
PktPatCWhole == SectionStart(PidPAT, 0, SecPatC)
PktPmtOneHead == SectionStart(PmtPid(0), PointerFor(PmtHead), SubSeq(SecPmt, 1, PmtHead))
PktPmtOneTail == SectionCont(PmtPid(0), Seek(SecPmt, PmtHead))
PktPmtTwoHead == SectionStart(PmtPid(2), PointerFor(PmtHead), SubSeq(SecPmtTwo, 1, PmtHead))
PktPmtTwoTail == SectionCont(PmtPid(2), Seek(SecPmtTwo, PmtHead))
PacketsTwoPmt == {PktPatCWhole, PktPmtOneHead, PktPmtOneTail, PktPmtTwoHead, PktPmtTwoTail}

\* a PAT that gives the EIT PID to program 1, a PMT that lists the SDT PID
\* as an elementary stream, and PMT and PES data sent on those PIDs
SecPatPrio == Psi(0, 1, 5, 0, 0, ProgramEntry(1, PidEIT) \o ProgramEntry(2, PmtPid(0)))
SecPmtPrio == Psi(2, 2, 0, 0, 0, <<224 + PidSDT \div 256, PidSDT % 256, 240, 0>>
                                 \o StreamEntry(27, PidSDT))
PktPatPrio == SectionStart(PidPAT, 0, SecPatPrio)
PktPmtPrio == SectionStart(PmtPid(0), 0, SecPmtPrio)
PktPmtOnEit == SectionStart(PidEIT, 0, SecPmt)
PktEsOnSdt == EsPacket(PidSDT, TRUE, PesUnit(5))
PacketsPrio ==
    {PktPatPrio, PktPmtPrio, PktPmtOnEit, PktEsOnSdt, PktEit0, PktEit1, PktSdt0, PktPatA}

\* SDT and EIT sections that differ from SecSdt(0) and SecEit(0) only in the
\* original_network_id (0x0100 for 0x0001), and for the EIT in the
\* transport_stream_id (0x0100 for 0x0001)
PktSdt0OtherNet == SectionStart(PidSDT, 0, Psi(66, 1, 0, 0, 2, <<1, 0, 255>>))
PktEit0OtherNet == SectionStart(PidEIT, 0, Psi(78, 7, 0, 0, 1, <<0, 1, 1, 0, 1, 78>>))
PktEit0OtherTs == SectionStart(PidEIT, 0, Psi(78, 7, 0, 0, 1, <<1, 0, 0, 1, 1, 78>>))
PacketsSi ==
    {PktSdt0, PktSdt1Head, PktSdt1Tail, PktSdt2, PktSdt0OtherNet,
     PktEit0, PktEit1, PktEit0OtherNet, PktEit0OtherTs}

\* packets a careless or hostile multiplexer sends besides Packets188
\* a packet on PID 0 without PUSI whose adaptation field fills the packet
PktPatContNoPayload == EsPacket(PidPAT, FALSE, <<>>)
PacketsMore ==
    {PktPatAShort, PktPatD, PktEit2, PktPmtCont, PktPatCMid, PktPatCEnd, PktPatContNoPayload}

(***************************************************************************)
(* The state machine.                                                      *)
(***************************************************************************)
Demuxer == [offset |-> offset, pat |-> pat, pmt |-> pmt, sdt |-> sdt, eit |-> eit,
            pmt_pids |-> pmt_pids, packets |-> packets]

\* Demuxer::new
Init ==
    /\ offset = 0
    /\ pat = Tables_default
    /\ pmt = Tables_default
    /\ sdt = Tables_default
    /\ eit = Tables_default
    /\ pmt_pids = <<>>
    /\ packets = <<>>
    /\ raw = <<>>
    /\ result = Ok
    /\ emitted = <<>>
    /\ calls = 0

\* the keys of the HashMap a call iterates: those of self.pat.map when
\* build_pmt_pids runs, those of self.pmt.map when build_packets runs (a call
\* runs at most one of the two), none otherwise
map_keys_after(D, buf) ==
    IF Packet_validate(buf).kind # "Ok" THEN {}
    ELSE IF Header_pid(buf)[1] = "PAT" /\ D.pmt_pids = <<>>
            /\ demux_section(D.pat, "PAT", buf).res.kind = "Ok"
      THEN DOMAIN demux_section(D.pat, "PAT", buf).tables.map
    ELSE IF section_kind(D, Header_pid(buf)) = "PMT"
            /\ ~PMTPids_is_packet_builded(D.pmt_pids, Header_pid(buf)).v
            /\ demux_section(D.pmt, "PMT", buf).res.kind = "Ok"
      THEN DOMAIN demux_section(D.pmt, "PMT", buf).tables.map
    ELSE {}

\* the demuxer, the result and the sink after a call that did o
Return(o, buf) ==
    /\ offset' = o.d.offset
    /\ pat' = o.d.pat
    /\ pmt' = o.d.pmt
    /\ sdt' = o.d.sdt
    /\ eit' = o.d.eit
    /\ pmt_pids' = o.d.pmt_pids
    /\ packets' = o.d.packets
    /\ raw' = buf
    /\ result' = o.res
    /\ emitted' = o.events
    /\ calls' = calls + 1

\* one call of demux(buf)
Demux(buf) ==
    /\ calls < MaxCalls
    /\ result.kind # "Panic"
    /\ \E ord \in Orders(map_keys_after(Demuxer, buf)) : Return(demux(Demuxer, buf, ord), buf)

DemuxPacket == \E buf \in Packets188 : Demux(buf)

DemuxMisframed == \E buf \in Misframed : Demux(buf)

Next == DemuxPacket

Spec == Init /\ [][Next]_vars

NextFraming == DemuxPacket \/ DemuxMisframed

SpecFraming == Init /\ [][NextFraming]_vars

DemuxMore == \E buf \in PacketsMore : Demux(buf)

NextWide == DemuxPacket \/ DemuxMore

SpecWide == Init /\ [][NextWide]_vars

\* the PAT packets alone
DemuxPat == \E buf \in PacketsPat : Demux(buf)
NextPat == DemuxPat
SpecPat == Init /\ [][NextPat]_vars

\* two programs with interleaved PMTs
DemuxTwoPmt == \E buf \in PacketsTwoPmt : Demux(buf)
NextTwoPmt == DemuxTwoPmt
SpecTwoPmt == Init /\ [][NextTwoPmt]_vars

\* well-known PIDs announced as PMT and ES PIDs
DemuxPrio == \E buf \in PacketsPrio : Demux(buf)
NextPrio == DemuxPrio
SpecPrio == Init /\ [][NextPrio]_vars

(***************************************************************************)
(* The PCR of a packet on its own: raw is an accepted packet, result what  *)
(* Packet::pcr returns for it.                                             *)
(***************************************************************************)
\* adaptation_field_control afc, then the bytes L, flags, six bytes p and a
\* payload that counts upwards
AdaptPacket(afc, L, flags, p) ==
    <<SYNC_BYTE, 1, 0, 16 * afc, L, flags, p, p + 1, p + 2, p + 3, p + 4, p + 5>>
        \o [i \in 1..(SZ - 12) |-> i]

AdaptPackets ==
    {AdaptPacket(afc, L, flags, p) :
        afc \in {1, 2, 3}, L \in {0, 1, 6, 7, 100, 183, 184, 255},
        flags \in {0, 8, 16, 239, 255}, p \in {0, 200}}

PcrOf(r) == [kind |-> "pcr", res |-> r.res, some |-> r.some, buf |-> r.buf]

InitAdapt ==
    /\ offset = 0
    /\ pat = Tables_default
    /\ pmt = Tables_default
    /\ sdt = Tables_default
    /\ eit = Tables_default
    /\ pmt_pids = <<>>
    /\ packets = <<>>
    /\ raw \in AdaptPackets
    /\ result = Ok
    /\ emitted = <<>>
    /\ calls = 0

PacketPcr ==
    /\ calls = 0
    /\ Packet_validate(raw).kind = "Ok"
    /\ result' = PcrOf(Packet_pcr(raw))
    /\ calls' = 1
    /\ UNCHANGED <<offset, pat, pmt, sdt, eit, pmt_pids, packets, raw, emitted>>

NextAdapt == PacketPcr
SpecAdapt == InitAdapt /\ [][NextAdapt]_vars

\* a PAT section whose header carries the largest section_length of the
\* 12-bit field, and the packets that continue it
MaxLongCalls == 7
SecPatLongHead == <<0, 176 + 15, 255, 0, 1, 193, 0, 0>>
PktPatLongStart == SectionStart(PidPAT, 0, SecPatLongHead \o [i \in 1..175 |-> 0])
PktPatLongCont == SectionCont(PidPAT, [i \in 1..184 |-> 1])
PacketsLong == {PktPatLongStart, PktPatLongCont, PktPatA, PktSdt0}
DemuxLong ==
    \E buf \in PacketsLong :
        /\ calls < MaxLongCalls
        /\ result.kind # "Panic"
        /\ \E ord \in Orders(map_keys_after(Demuxer, buf)) : Return(demux(Demuxer, buf, ord), buf)
NextLong == DemuxLong
SpecLong == Init /\ [][NextLong]_vars

\* service information of several networks
DemuxSi == \E buf \in PacketsSi : Demux(buf)
NextSi == DemuxSi
SpecSi == Init /\ [][NextSi]_vars

\* a program and its elementary stream
DemuxEs == \E buf \in PacketsEs : Demux(buf)
NextEs == DemuxEs
SpecEs == Init /\ [][NextEs]_vars

(***************************************************************************)
(* The three public entry points.  demux_tables and demux_packets are      *)
(* public as well and may be called on their own: demux_tables returns     *)
(* Ok(handled), demux_packets what demux returns.                          *)
(***************************************************************************)
PacketsApi == PacketsEs

\* Result<bool> of demux_tables
TablesResult(t) == IF t.res.kind = "Ok" THEN [kind |-> "Ok", value |-> t.handled] ELSE t.res

DemuxApi == \E buf \in PacketsApi : Demux(buf)

\* one call of demux_tables(buf)
DemuxTables ==
    \E buf \in PacketsApi :
        /\ calls < MaxCalls
        /\ result.kind # "Panic"
        /\ \E ord \in Orders(map_keys_after(Demuxer, buf)) :
              Return([demux_tables(Demuxer, buf, ord) EXCEPT !.res = TablesResult(demux_tables(Demuxer, buf, ord))],
                     buf)

\* one call of demux_packets(buf)
DemuxPackets ==
    \E buf \in PacketsApi :
        /\ calls < MaxCalls
        /\ result.kind # "Panic"
        /\ Return(demux_packets(Demuxer, buf), buf)

NextApi == DemuxApi \/ DemuxTables \/ DemuxPackets
SpecApi == Init /\ [][NextApi]_vars

(***************************************************************************)
(* The time stamps on their own: raw is the field given to Timestamp::new  *)
(* (five bytes) or to PCR::new (six bytes), result what ns() returns.      *)
(***************************************************************************)
\* a PTS/DTS field with prefix and marker bits around the 33 bits a b c d e
TimestampBuf(a, b, c, d, e) == <<33 + 2 * a, b, 2 * c + 1, d, 2 * e + 1>>
\* a PCR field: 32 bits of base, its last bit, six reserved bits, the extension
PcrBuf(b0, b1, b2, b3, lsb, ext) == <<b0, b1, b2, b3, 128 * lsb + 126 + ext \div 256, ext % 256>>

TimestampBufs ==
    {TimestampBuf(a, b, c, d, e) :
        a \in {0, 5, 7}, b \in {0, 85, 255}, c \in {0, 42, 127}, d \in {0, 170, 255}, e \in {0, 85, 127}}
PcrBufs ==
    {PcrBuf(b0, b1, b2, b3, lsb, ext) :
        b0 \in {0, 255}, b1 \in {0, 255}, b2 \in {3, 255}, b3 \in {0, 255},
        lsb \in {0, 1}, ext \in {0, 299, 511}}

Ns(v) == [kind |-> "Ns", ns |-> v]

InitTime ==
    /\ offset = 0
    /\ pat = Tables_default
    /\ pmt = Tables_default
    /\ sdt = Tables_default
    /\ eit = Tables_default
    /\ pmt_pids = <<>>
    /\ packets = <<>>
    /\ raw \in TimestampBufs \cup PcrBufs
    /\ result = Ok
    /\ emitted = <<>>
    /\ calls = 0

TimestampNs ==
    /\ calls = 0
    /\ raw \in TimestampBufs
    /\ result' = Ns(Timestamp_ns(raw))
    /\ calls' = 1
    /\ UNCHANGED <<offset, pat, pmt, sdt, eit, pmt_pids, packets, raw, emitted>>

PcrNs ==
    /\ calls = 0
    /\ raw \in PcrBufs
    /\ result' = Ns(PCR_ns(raw))
    /\ calls' = 1
    /\ UNCHANGED <<offset, pat, pmt, sdt, eit, pmt_pids, packets, raw, emitted>>

NextTime == TimestampNs \/ PcrNs
SpecTime == InitTime /\ [][NextTime]_vars

(***************************************************************************)
(* annex_c.rs : BCD durations.  bcd works in u8; its largest value is      *)
(* 15 * 10 + 15 = 165.                                                     *)
(***************************************************************************)
ErrAnnexCBuf(actual, expected) ==
    [kind |-> "AnnexCBuf", actual |-> actual, expected |-> expected]
Duration_new(secs, nanos) == [kind |-> "Duration", secs |-> secs, nanos |-> nanos]

\* bcd with the high nibble weighted as in binary
MutBcd_hex(hex) ==
    LET digit1 == (hex - (hex % 16)) \div 16
        digit2 == hex % 16
    IN (digit1 * 16 + digit2) % 256

bcd(hex) ==
    LET digit1 == (hex - (hex % 16)) \div 16
        digit2 == hex % 16
    IN (digit1 * 10 + digit2) % 256

from_bytes_into_duration(buf) ==
    IF Len(buf) < 3
      THEN ErrAnnexCBuf(Len(buf), 3)
      ELSE LET hh == bcd(B(buf, 0))
               mm == bcd(B(buf, 1))
               ss == bcd(B(buf, 2))
           IN Duration_new(hh * 3600 + mm * 60 + ss, 0)

\* nibbles of every kind: decimal digits, 0xA..0xF, both extremes
DurationBytes == {0, 9, 35, 69, 89, 153, 175, 250, 255}
DurationBufs ==
    {<<>>} \cup {<<a>> : a \in DurationBytes}
           \cup {<<a, b>> : a, b \in DurationBytes}
           \cup {<<a, b, c>> : a, b, c \in DurationBytes}
           \cup {<<a, b, c, d>> : a, b, c \in {0, 35, 255}, d \in {0, 69}}

InitDuration ==
    /\ offset = 0
    /\ pat = Tables_default
    /\ pmt = Tables_default
    /\ sdt = Tables_default
    /\ eit = Tables_default
    /\ pmt_pids = <<>>
    /\ packets = <<>>
    /\ raw \in DurationBufs
    /\ result = Ok
    /\ emitted = <<>>
    /\ calls = 0

FromBytesIntoDuration ==
    /\ calls = 0
    /\ result' = from_bytes_into_duration(raw)
    /\ calls' = 1
    /\ UNCHANGED <<offset, pat, pmt, sdt, eit, pmt_pids, packets, raw, emitted>>

NextDuration == FromBytesIntoDuration
SpecDuration == InitDuration /\ [][NextDuration]_vars

(***************************************************************************)
(* The payload of a packet on its own: raw is an accepted packet, result   *)
(* what buf_payload_pes or buf_payload_section returns for it.  The bytes  *)
(* after the header differ from their neighbours, so that a payload taken  *)
(* from another offset is another sequence.                                *)
(***************************************************************************)
PayloadBody == [i \in 1..(SZ - HEADER_SZ_TS) |-> (3 * i) % 256]

\* adaptation_field_control afc, first byte after the header b4, and the
\* byte v at offset at
PayloadPacket(pusiFlag, afc, b4, at, v) ==
    [[(<<SYNC_BYTE, (IF pusiFlag THEN 64 ELSE 0) + 1, 0, 16 * afc>> \o PayloadBody)
        EXCEPT ![HEADER_SZ_TS + 1] = b4]
        EXCEPT ![IF at < SZ THEN at + 1 ELSE HEADER_SZ_TS + 1] = IF at < SZ THEN v ELSE b4]

PayloadPackets ==
    {PayloadPacket(pusiFlag, 1, b4, HEADER_SZ_TS, b4) :
        pusiFlag \in BOOLEAN, b4 \in {0, 3, 182, 183, 255}}
    \cup {PayloadPacket(pusiFlag, afc, b4, HEADER_SZ_TS + 1 + b4, v) :
            pusiFlag \in BOOLEAN, afc \in {2, 3}, b4 \in {0, 1, 7, 100, 181, 182, 183, 184, 255},
            v \in {0, 3, 80, 255}}

Payload(fn, r) == [kind |-> fn, res |-> r.res, buf |-> r.buf]

InitPayload ==
    /\ offset = 0
    /\ pat = Tables_default
    /\ pmt = Tables_default
    /\ sdt = Tables_default
    /\ eit = Tables_default
    /\ pmt_pids = <<>>
    /\ packets = <<>>
    /\ raw \in PayloadPackets
    /\ result = Ok
    /\ emitted = <<>>
    /\ calls = 0

BufPayloadPes ==
    /\ calls = 0
    /\ Packet_validate(raw).kind = "Ok"
    /\ result' = Payload("buf_payload_pes", buf_payload_pes(raw))
    /\ calls' = 1
    /\ UNCHANGED <<offset, pat, pmt, sdt, eit, pmt_pids, packets, raw, emitted>>

BufPayloadSection ==
    /\ calls = 0
    /\ Packet_validate(raw).kind = "Ok"
    /\ result' = Payload("buf_payload_section", buf_payload_section(raw))
    /\ calls' = 1
    /\ UNCHANGED <<offset, pat, pmt, sdt, eit, pmt_pids, packets, raw, emitted>>

NextPayload == BufPayloadPes \/ BufPayloadSection
SpecPayload == InitPayload /\ [][NextPayload]_vars

(***************************************************************************)
(* Vocabulary of the properties.  The bytes of the last buffer are read    *)
(* here directly, by position, not through the parser modelled above.      *)
(***************************************************************************)
Kinds == {"PAT", "SDT", "EIT", "PMT"}

TablesOfKind(k) ==
    CASE k = "PAT" -> pat [] k = "SDT" -> sdt [] k = "EIT" -> eit [] k = "PMT" -> pmt

\* the on_table events of the last call
TableEvents == {emitted[i] : i \in {j \in DOMAIN emitted : emitted[j].kind = "table"}}

\* the table stored under id is complete in the sense of Table::done
StoredDone(id) ==
    /\ id[1] \in Kinds
    /\ id \in DOMAIN TablesOfKind(id[1]).map
    /\ Table_done(TablesOfKind(id[1]).map[id])

SectionNumbers(t) == [i \in 1..Len(t.sections) |-> t.sections[i].number]

\* the last buffer was framed as a TS packet; its header fields
RawFramed == calls > 0 /\ Len(raw) = 188 /\ raw[1] = 71
RawPusi == (raw[2] \div 64) % 2 = 1
RawPidValue == (raw[2] % 32) * 256 + raw[3]
RawPayloadStart == 4 + (IF (raw[4] \div 32) % 2 = 1 THEN 1 + raw[5] ELSE 0)
\* offset of the first section byte of a PUSI section packet
RawSectionStart == RawPayloadStart + 1 + raw[RawPayloadStart + 1]
RawSectionByte(i) == raw[RawSectionStart + 1 + i]
RawSectionLength == (RawSectionByte(1) % 16) * 256 + RawSectionByte(2)
\* a PUSI packet that holds a whole section of at least a syntax header
RawWholeSection ==
    /\ RawFramed /\ RawPusi
    /\ RawPayloadStart < 188
    /\ RawSectionStart + 8 <= 188
    /\ RawSectionStart + 3 + RawSectionLength <= 188
RawSectionBytes == SubSeq(raw, RawSectionStart + 1, RawSectionStart + 3 + RawSectionLength)
RawVersion == (RawSectionByte(5) \div 2) % 32
RawPatId == <<"PAT", RawSectionByte(0), RawSectionByte(3) * 256 + RawSectionByte(4), RawVersion>>

\* program entries of a complete PAT section buffer, as <<program_number, pid>>
PatEntries(buf) ==
    {<<buf[9 + 4 * k] * 256 + buf[10 + 4 * k], (buf[11 + 4 * k] % 32) * 256 + buf[12 + 4 * k]>> :
        k \in 0..((Len(buf) - 12) \div 4 - 1)}
PatTableEntries(t) == UNION {PatEntries(t.sections[i].buf) : i \in 1..Len(t.sections)}
ProgramMapPids(t) == {e[2] : e \in {x \in PatTableEntries(t) : x[1] # 0}}
NetworkPids(t) == {e[2] : e \in {x \in PatTableEntries(t) : x[1] = 0}}
RegistryPids == {pmt_pids[i][1][2] : i \in DOMAIN pmt_pids}
\* the sections stored in the tables of every kind
StoredTables == UNION {{TablesOfKind(k).map[id] : id \in DOMAIN TablesOfKind(k).map} : k \in Kinds}
StoredSections == UNION {{t.sections[i] : i \in 1..Len(t.sections)} : t \in StoredTables}
\* a PUSI packet that holds at least the syntax header of a section
RawSectionHead ==
    /\ RawFramed /\ RawPusi
    /\ RawPayloadStart < 188
    /\ RawSectionStart + 8 <= 188
\* the payload of the last buffer, pointer_field included
RawPayload == SubSeq(raw, RawPayloadStart + 1, 188)

(***************************************************************************)
(* C1: a buffer is accepted iff it is 188 bytes long and starts with 0x47. *)
(* Another length gives Buf(actual length, 188), also for the empty        *)
(* buffer; a 188-byte buffer with another first byte gives                 *)
(* SyncByte(first byte); an accepted buffer gives neither.                 *)
(***************************************************************************)
C1_AcceptedIffFramed ==
    calls > 0 =>
        /\ Len(raw) # 188 => result = ErrBuf(Len(raw), 188)
        /\ (Len(raw) = 188 /\ raw[1] # 71) => result = ErrSyncByte(raw[1])
        /\ (Len(raw) = 188 /\ raw[1] = 71) =>
               /\ result.kind # "SyncByte"
               /\ result.kind = "Buf" => result.actual = 188

C1_Witness ==
    /\ calls > 1
    /\ raw = <<>>
    /\ result = ErrBuf(0, 188)

(***************************************************************************)
(* C2: an emitted table holds a section for every section_number in        *)
(* 0..last_section_number.                                                 *)
(***************************************************************************)
C2_EmittedWithoutGaps ==
    \A e \in TableEvents :
        \A n \in 0..e.table.last_section_number :
            \E i \in 1..Len(e.table.sections) : e.table.sections[i].number = n

(***************************************************************************)
(* C3: every section of an emitted table is complete: its buffer is as     *)
(* long as its declared size.                                              *)
(***************************************************************************)
C3_EmittedSectionsComplete ==
    \A e \in TableEvents :
        \A i \in 1..Len(e.table.sections) :
            Len(e.table.sections[i].buf) = e.table.sections[i].sz

(***************************************************************************)
(* C4: on_table is edge-triggered.  A packet without PUSI opens no         *)
(* section, so a table that was complete before such a packet stays        *)
(* complete and the call emits nothing for it.                             *)
(***************************************************************************)
C4_EdgeTriggered ==
    [][\A e \in TableEvents' :
           (calls' = calls + 1 /\ ~RawPusi') => ~StoredDone(e.id)]_vars

(***************************************************************************)
(* C5: a duplicate of the packet just processed emits no on_table for a    *)
(* table that was complete after the original.                             *)
(***************************************************************************)
C5_DuplicateIdempotent ==
    [][(calls >= 1 /\ calls' = calls + 1 /\ raw' = raw) =>
           \A e \in TableEvents' : ~StoredDone(e.id)]_vars

\* the call just made was given a PUSI packet on PID 0 that holds a whole
\* section with section_number = last_section_number = 0
PatSingleStep ==
    /\ calls' = calls + 1
    /\ RawWholeSection'
    /\ RawPidValue' = 0
    /\ RawSectionByte(6)' = 0
    /\ RawSectionByte(7)' = 0

(***************************************************************************)
(* C6 as stated: a PUSI packet on the PAT PID that holds a whole section   *)
(* with section_number = last_section_number = 0 gives exactly one         *)
(* on_table.  Its SubtableID is PAT(table_id, transport_stream_id,         *)
(* version_number) and its single section buffer is the packet from        *)
(* payload start + 1 + pointer_field, cut to 3 + section_length bytes.     *)
(***************************************************************************)
C6_PatRoundTrip ==
    (/\ RawWholeSection
     /\ RawPidValue = 0
     /\ RawSectionByte(6) = 0
     /\ RawSectionByte(7) = 0)
    => /\ Len(emitted) = 1
       /\ emitted[1].kind = "table"
       /\ emitted[1].id = RawPatId
       /\ Len(emitted[1].table.sections) = 1
       /\ emitted[1].table.sections[1].buf = RawSectionBytes

(***************************************************************************)
(* C6 amended: such a packet stores its section bytes, from payload start  *)
(* + 1 + pointer_field and 3 + section_length long, as section 0 of the    *)
(* table PAT(table_id, transport_stream_id, version_number).  When no      *)
(* table was stored under that SubtableID, exactly one on_table is         *)
(* emitted, with that id and this one section.  When one was stored, it    *)
(* keeps the last_section_number it was created with, and one on_table     *)
(* with all its sections is emitted if its highest stored section is       *)
(* complete and carries that number, and nothing otherwise.                *)
(***************************************************************************)
C6_PatSectionStored ==
    [][PatSingleStep
       => /\ RawPatId' \in DOMAIN pat'.map
          /\ pat'.map[RawPatId'].sections[1].number = 0
          /\ pat'.map[RawPatId'].sections[1].buf = RawSectionBytes'
          /\ IF RawPatId' \notin DOMAIN pat.map
               THEN /\ Len(emitted') = 1
                    /\ emitted'[1].kind = "table"
                    /\ emitted'[1].id = RawPatId'
                    /\ Len(emitted'[1].table.sections) = 1
                    /\ emitted'[1].table.sections[1].buf = RawSectionBytes'
               ELSE /\ pat'.map[RawPatId'].last_section_number
                         = pat.map[RawPatId'].last_section_number
                    /\ emitted' =
                         IF LET secs == pat'.map[RawPatId'].sections
                            IN /\ secs[Len(secs)].number = pat.map[RawPatId'].last_section_number
                               /\ Len(secs[Len(secs)].buf) = secs[Len(secs)].sz
                           THEN <<OnTable(RawPatId', pat'.map[RawPatId'])>>
                           ELSE <<>>]_vars

C6_Witness ==
    /\ raw = PktPatB
    /\ raw[5] = 3
    /\ Len(emitted) = 1
    /\ emitted[1].id = <<"PAT", 0, 1, 1>>
    /\ emitted[1].table.sections[1].buf = SecPatB

(***************************************************************************)
(* C7: starting from the empty registry, after the call in which the       *)
(* first PAT completes the registry holds the PID of every entry with      *)
(* program_number # 0 of that PAT and no PID that only an entry with       *)
(* program_number = 0 carries.                                             *)
(***************************************************************************)
C7_FirstPatRegistersPrograms ==
    [][(/\ calls' = calls + 1
        /\ \A id \in DOMAIN pat.map : ~Table_done(pat.map[id]))
       => \A e \in TableEvents' :
              e.id[1] = "PAT" =>
                  /\ ProgramMapPids(e.table) \subseteq RegistryPids'
                  /\ (NetworkPids(e.table) \ ProgramMapPids(e.table)) \cap RegistryPids' = {}]_vars

(***************************************************************************)
(* C8: after any PAT completes, every program_map PID it lists is in the   *)
(* registry; so after PAT version 0 and then PAT version 1 with another    *)
(* PID the registry holds both.  Stated for the call of the PUSI packet    *)
(* that completes the PAT.                                                 *)
(***************************************************************************)
C8_CompletedPatRegistered ==
    \A e \in TableEvents :
        (RawFramed /\ RawPusi /\ e.id[1] = "PAT") =>
            ProgramMapPids(e.table) \subseteq RegistryPids

(***************************************************************************)
(* C9: a complete single-section PAT stored under version v, then a whole  *)
(* single-section PAT with the same table_id and transport_stream_id and   *)
(* another version: the new section goes to another SubtableID, the call   *)
(* emits exactly that new table, and the table under the old SubtableID    *)
(* keeps its sections and buffers.                                         *)
(***************************************************************************)
C9_VersionChangeFreshTable ==
    [][\A old \in DOMAIN pat.map :
           (/\ calls' = calls + 1
            /\ RawWholeSection'
            /\ RawPidValue' = 0
            /\ RawSectionByte(6)' = 0
            /\ RawSectionByte(7)' = 0
            /\ old[2] = RawPatId'[2]
            /\ old[3] = RawPatId'[3]
            /\ old[4] # RawPatId'[4]
            /\ Len(pat.map[old].sections) = 1
            /\ Table_done(pat.map[old]))
           => /\ RawPatId' # old
              /\ RawPatId' \in DOMAIN pat'.map
              /\ emitted' = <<OnTable(RawPatId', pat'.map[RawPatId'])>>
              /\ old \in DOMAIN pat'.map
              /\ pat'.map[old] = pat.map[old]]_vars

C9_Witness ==
    /\ raw = PktPatB
    /\ <<"PAT", 0, 1, 0>> \in DOMAIN pat.map
    /\ <<"PAT", 0, 1, 1>> \in DOMAIN pat.map
    /\ pat.map[<<"PAT", 0, 1, 0>>].sections[1].buf = SecPatA
    /\ emitted = <<OnTable(<<"PAT", 0, 1, 1>>, pat.map[<<"PAT", 0, 1, 1>>])>>

(***************************************************************************)
(* C10: a table with last_section_number = 1 whose sections 0 and 1 each   *)
(* arrive whole in one PUSI packet, in either order.  While it holds one   *)
(* section no call emits it; the call that adds the second section emits   *)
(* it, once, with the sections ordered [0, 1].                             *)
(***************************************************************************)
C10_TwoSectionsEmitOnce ==
    [][\A k \in Kinds : \A id \in DOMAIN TablesOfKind(k)'.map :
           LET new == TablesOfKind(k)'.map[id]
               whole == \A i \in 1..Len(new.sections) : Section_done(new.sections[i])
           IN (calls' = calls + 1 /\ new.last_section_number = 1 /\ whole) =>
                  /\ Len(new.sections) = 1 =>
                         \A e \in TableEvents' : e.id # id
                  /\ (/\ id \in DOMAIN TablesOfKind(k).map
                      /\ Len(TablesOfKind(k).map[id].sections) = 1
                      /\ {new.sections[i].number : i \in 1..Len(new.sections)} = {0, 1}
                      /\ Len(new.sections) = 2)
                     => /\ emitted' = <<OnTable(id, new)>>
                        /\ SectionNumbers(new) = <<0, 1>>]_vars

C10_Witness ==
    /\ calls = 2
    /\ raw = PktEit0
    /\ Len(emitted) = 1
    /\ emitted[1].kind = "table"
    /\ emitted[1].table.last_section_number = 1
    /\ SectionNumbers(emitted[1].table) = <<0, 1>>

(***************************************************************************)
(* C11: a single-section PAT whose section of size S comes in a PUSI       *)
(* packet and then in packets without PUSI.  The PUSI packet that does     *)
(* not hold the whole section emits nothing; a following packet that       *)
(* leaves the section short of S emits nothing; the packet that brings it  *)
(* to S emits the table exactly once, the section buffer is the bytes      *)
(* held before and the first missing bytes of the payload, S bytes long:   *)
(* the stuffing behind them is not appended.                               *)
(***************************************************************************)
C11_SplitSectionCompletes ==
    [][(calls' = calls + 1 /\ RawFramed' /\ RawPidValue' = 0) =>
          /\ (/\ RawSectionHead'
              /\ ~RawWholeSection'
              /\ RawSectionByte(6)' = 0
              /\ RawSectionByte(7)' = 0) => emitted' = <<>>
          /\ (/\ ~RawPusi'
              /\ pat.current # None
              /\ pat.current[2] = 0
              /\ pat.map[pat.current[1]].last_section_number = 0
              /\ Len(Deref(pat, pat.current).buf) < Deref(pat, pat.current).sz)
             => LET id == pat.current[1]
                    old == Deref(pat, pat.current)
                    need == old.sz - Len(old.buf)
                    new == pat'.map[id].sections[1]
                IN IF Len(RawPayload') < need
                     THEN /\ emitted' = <<>>
                          /\ new.buf = old.buf \o RawPayload'
                     ELSE /\ emitted' = <<OnTable(id, pat'.map[id])>>
                          /\ Len(new.buf) = old.sz
                          /\ new.buf = old.buf \o SubSeq(RawPayload', 1, need)]_vars

C11_Witness ==
    /\ calls = 3
    /\ raw = PktPatCEnd
    /\ Len(emitted) = 1
    /\ emitted[1].id = <<"PAT", 0, 1, 2>>
    /\ emitted[1].table.sections[1].buf = SecPatC
    /\ Len(SecPatC) < Len(RawPayload) + PatCHead + PatCMid

(***************************************************************************)
(* C12: in every state every stored section holds at most as many bytes    *)
(* as its declared size, so sz - buf.sz() does not go below zero, and it   *)
(* is done exactly when the two are equal; also after a PUSI packet has    *)
(* opened a stored section again with another declared size.               *)
(***************************************************************************)
C12_BufferWithinSize ==
    \A s \in StoredSections :
        /\ Len(s.buf) <= s.sz
        /\ Section_done(s) <=> Len(s.buf) = s.sz

C12_Witness ==
    /\ calls = 3
    /\ raw = PktPatAShort
    /\ \E s \in StoredSections :
           /\ s.table_id = <<"PAT", 0, 1, 0>>
           /\ s.sz = Len(SecPatAShort)
           /\ s.sz < Len(SecPatA)
           /\ s.buf = SecPatAShort
    /\ \E s \in StoredSections : Len(s.buf) < s.sz

(***************************************************************************)
(* C13: in every state the section numbers stored in a table are strictly  *)
(* increasing: unique and sorted, whatever the order in which the PUSI     *)
(* packets came and however often they were repeated.                      *)
(***************************************************************************)
C13_SectionNumbersIncreasing ==
    \A t \in StoredTables :
        \A i, j \in 1..Len(t.sections) :
            i < j => t.sections[i].number < t.sections[j].number

C13_Witness ==
    /\ calls = 4
    /\ raw = PktSdt0
    /\ \E t \in StoredTables :
           /\ t.last_section_number = 2
           /\ SectionNumbers(t) = <<0, 1, 2>>

(***************************************************************************)
(* C14: in every state every section stored in a table has a               *)
(* section_number in 0..last_section_number of that table, the value       *)
(* recorded when the table was created.                                    *)
(***************************************************************************)
C14_SectionNumbersWithinLast ==
    \A t \in StoredTables :
        \A i \in 1..Len(t.sections) :
            t.sections[i].number \in 0..t.last_section_number

(***************************************************************************)
(* C15: in every state the PMT PID registry holds no PID twice, for any    *)
(* sequence of PAT sections: repeated, in several sections, or listing one *)
(* PID for several programs.                                               *)
(***************************************************************************)
C15_RegistryNoDuplicates ==
    \A i, j \in DOMAIN pmt_pids : i # j => pmt_pids[i][1] # pmt_pids[j][1]

\* the two-section PAT is complete, its section 1 names PID 0x0100 for two
\* programs, and the registry built from it holds that PID once
C15_Witness ==
    /\ calls = 2
    /\ raw = PktPatE1
    /\ \E t \in StoredTables : SectionNumbers(t) = <<0, 1>> /\ Table_done(t)
                               /\ PAT_section_pids(t.sections[2].buf).pids
                                    = <<PID_from(PmtPid(0)), PID_from(PmtPid(0))>>
    /\ pmt_pids = <<<<PID_from(PmtPid(0)), FALSE>>>>

(***************************************************************************)
(* C16: after a call that emits a PMT table there is an accumulator for    *)
(* every elementary-stream PID the PMT lists, whatever packets came on     *)
(* that PMT PID before.                                                    *)
(***************************************************************************)
C16_PmtCompleteBuildsAccumulators ==
    \A e \in TableEvents :
        e.id[1] = "PMT" =>
            \A i \in 1..Len(e.table.sections) :
                \A k \in 1..Len(PMT_section_pids(e.table.sections[i].buf).pids) :
                    PMT_section_pids(e.table.sections[i].buf).pids[k] \in DOMAIN packets

\* the PID of the buffer of the last call, as the key of the accumulators
RawPid == PID_from(RawPidValue)
\* the buffer of the last call has bytes after its adaptation field
RawHasPayload == RawPayloadStart < Len(raw)
\* a call on a framed packet whose PID has an accumulator on entry
EsStep == calls' = calls + 1 /\ RawFramed' /\ RawPid' \in DOMAIN packets
\* the event that hands the accumulator of the packet's PID, as it is on entry
EntryEvent == OnPacket(packets[RawPid'])

(***************************************************************************)
(* C17 as stated: on a packet of an accumulator PID on_packet is called    *)
(* iff the packet has PUSI and the accumulator buffer is not empty on      *)
(* entry, and it is given the accumulator as it is before the reset.       *)
(***************************************************************************)
C17_EmitIffPusiAndNonEmpty ==
    [][EsStep =>
         emitted' = IF RawPusi' /\ packets[RawPid'].buf # <<>> THEN <<EntryEvent>> ELSE <<>>]_vars

(***************************************************************************)
(* C17, amended: the same for a packet that carries a payload.  A packet   *)
(* that is all adaptation field is refused with Buf(188, 188) before       *)
(* anything is emitted, with PUSI and a filled buffer too, and the         *)
(* accumulators are left as they are.  A packet without PUSI never emits.  *)
(***************************************************************************)
C17_EmitIffPusiNonEmptyPayload ==
    [][EsStep =>
         /\ RawHasPayload' =>
              emitted' = IF RawPusi' /\ packets[RawPid'].buf # <<>> THEN <<EntryEvent>> ELSE <<>>
         /\ ~RawHasPayload' =>
              emitted' = <<>> /\ result' = ErrBuf(SZ, SZ) /\ packets' = packets
         /\ ~RawPusi' => emitted' = <<>>]_vars

\* the second access unit starts: the first one is handed over, as it was
\* stored by its own PUSI packet, and the buffer now holds the second
C17_Witness ==
    /\ calls = 4
    /\ raw = PktEsStartB
    /\ Len(emitted) = 1
    /\ emitted[1].kind = "packet"
    /\ emitted[1].pid = PID_from(EsPid(0))
    /\ emitted[1].buf = Seek(PesUnit(1), PES_HEADER_SZ + PES_HEADER_SZ_1)
    /\ packets[PID_from(EsPid(0))].buf = Seek(PesUnit(2), PES_HEADER_SZ + PES_HEADER_SZ_1)

\* the events of the last call that hand over the accumulator of pid
PacketEventsOf(pid) ==
    {i \in DOMAIN emitted : emitted[i].kind = "packet" /\ emitted[i].pid = pid}

(***************************************************************************)
(* C18: an accumulator is created unstarted and empty, and as long as no   *)
(* PUSI packet comes on its PID it stays unstarted, its buffer stays empty *)
(* whatever payload comes on the PID, and no on_packet is given for it.    *)
(* Stated for one call: for an accumulator created by the call, and for    *)
(* one that was unstarted before a call whose packet is not a PUSI packet  *)
(* on its PID.                                                             *)
(***************************************************************************)
C18_UnstartedDiscards ==
    [][calls' = calls + 1 =>
         \A pid \in DOMAIN packets' :
             (\/ pid \notin DOMAIN packets
              \/ /\ pid \in DOMAIN packets
                 /\ ~packets[pid].started
                 /\ ~(RawFramed' /\ RawPusi' /\ RawPid' = pid))
             => /\ ~packets'[pid].started
                /\ packets'[pid].buf = <<>>
                /\ PacketEventsOf(pid)' = {}]_vars

\* a continuation packet with four bytes of payload comes on the PID of an
\* accumulator that has seen no PUSI: nothing is kept, nothing is emitted
C18_Witness ==
    /\ calls = 3
    /\ raw = PktEsCont
    /\ RawHasPayload /\ ~RawPusi
    /\ result = Ok
    /\ RawPid \in DOMAIN packets
    /\ ~packets[RawPid].started
    /\ packets[RawPid].buf = <<>>
    /\ emitted = <<>>

(***************************************************************************)
(* C19: an accumulator is never removed, made anew or set back to          *)
(* unstarted: after every call every accumulator is still there, a started *)
(* one is still started, and a call on another PID, a repeated or new      *)
(* version of the PAT or of the PMT included, leaves it as it was.         *)
(***************************************************************************)
C19_StartedForGood ==
    [][\A pid \in DOMAIN packets :
         /\ pid \in DOMAIN packets'
         /\ packets[pid].started => packets'[pid].started
         /\ ~(RawFramed' /\ RawPid' = pid) => packets'[pid] = packets[pid]]_vars

\* the stream has started, then a new version of the PAT and a new version
\* of the PMT were stored: the accumulator still holds the access unit
C19_Witness ==
    /\ calls = 5
    /\ raw = PktPmtB
    /\ <<"PAT", 0, 1, 1>> \in DOMAIN pat.map
    /\ <<"PMT", 2, 1, 1>> \in DOMAIN pmt.map
    /\ PID_from(EsPid(0)) \in DOMAIN packets
    /\ packets[PID_from(EsPid(0))].started
    /\ packets[PID_from(EsPid(0))].buf = Seek(PesUnit(1), PES_HEADER_SZ + PES_HEADER_SZ_1)

\* length of the complete PES header at the start of the payload: 6 bytes,
\* and for a stream id with the optional header 3 more and the
\* PES_header_data_length bytes that hold PTS and DTS
RawPesHeaderSz ==
    IF RawPayload[4] \in {188, 190, 191, 240, 241, 242, 248, 255} THEN 6 ELSE 9 + RawPayload[9]

(***************************************************************************)
(* C20: the buffer given by on_packet is the bytes of the opening PUSI     *)
(* packet's payload that follow the complete PES header, PTS and DTS       *)
(* fields included, followed by the whole payloads of the packets without  *)
(* PUSI that came after on the PID, in arrival order.  Stated for one      *)
(* call on an accumulator PID: a PUSI packet leaves the bytes after the    *)
(* PES header in the buffer, a packet without PUSI on a started            *)
(* accumulator appends its payload, and what is emitted carries the buffer *)
(* as it was on entry.                                                     *)
(***************************************************************************)
C20_BufferIsPesPayload ==
    [][(EsStep /\ RawHasPayload') =>
         /\ (RawPusi' /\ Len(RawPayload') >= 9) =>
               packets'[RawPid'].buf = Seek(RawPayload', RawPesHeaderSz')
         /\ (~RawPusi' /\ packets[RawPid'].started) =>
               packets'[RawPid'].buf = packets[RawPid'].buf \o RawPayload'
         /\ \A i \in DOMAIN emitted' :
               (emitted'[i].kind = "packet" /\ emitted'[i].pid = RawPid')
               => emitted'[i].buf = packets[RawPid'].buf]_vars

\* the PTS and DTS fields of the PES header at the start of the payload of
\* the last call's buffer, as the Durations the accumulator keeps
RawPtsDtsFlag == IF RawPesHeaderSz = 6 THEN 0 ELSE RawPayload[8] \div 64
RawPts == IF RawPtsDtsFlag \in {2, 3} THEN Packet_timestamp(<<SubSeq(RawPayload, 10, 14)>>) ELSE <<>>
RawDts == IF RawPtsDtsFlag = 3 THEN Packet_timestamp(<<SubSeq(RawPayload, 15, 19)>>) ELSE <<>>

(***************************************************************************)
(* C21: the pid, pts and dts that on_packet delivers are those recorded    *)
(* from the PUSI packet that opened the access unit, not those of the PUSI *)
(* packet that triggers the emission.  Stated for one call on an           *)
(* accumulator PID: what is emitted carries pid, pts and dts as the        *)
(* accumulator held them on entry; a PUSI packet then records its own PTS  *)
(* and DTS fields when the call returns Ok; a packet without PUSI leaves   *)
(* pts and dts as they are.                                                *)
(***************************************************************************)
C21_EmittedTimesOfOpeningPacket ==
    [][(EsStep /\ RawHasPayload') =>
         /\ \A i \in DOMAIN emitted' :
               emitted'[i].kind = "packet"
               => /\ emitted'[i].pid = RawPid'
                  /\ emitted'[i].pts = packets[RawPid'].pts
                  /\ emitted'[i].dts = packets[RawPid'].dts
         /\ (RawPusi' /\ Len(RawPayload') >= 9 /\ result'.kind = "Ok") =>
               /\ packets'[RawPid'].pts = RawPts'
               /\ packets'[RawPid'].dts = RawDts'
         /\ ~RawPusi' =>
               /\ packets'[RawPid'].pts = packets[RawPid'].pts
               /\ packets'[RawPid'].dts = packets[RawPid'].dts
         /\ packets'[RawPid'].pid = RawPid']_vars

\* a unit with PTS and DTS was opened, a continuation followed, and a unit
\* with another PTS and no DTS arrives: the event carries the first unit's
\* PTS and DTS, the accumulator now holds the second unit's
C21_Witness ==
    /\ calls = 5
    /\ raw = PktEsStart
    /\ Len(emitted) = 1
    /\ emitted[1].kind = "packet"
    /\ emitted[1].pid = PID_from(EsPid(0))
    /\ emitted[1].pts = <<Timestamp_ns(SubSeq(PesUnitDts(3), 10, 14))>>
    /\ emitted[1].dts = <<Timestamp_ns(SubSeq(PesUnitDts(3), 15, 19))>>
    /\ packets[RawPid].pts = <<Timestamp_ns(SubSeq(PesUnit(1), 10, 14))>>
    /\ packets[RawPid].pts # emitted[1].pts
    /\ packets[RawPid].dts = <<>>

\* the bits i..j of the byte d, lowest first
ByteBits(d, i, j) == [k \in 1..(j - i + 1) |-> (d \div (2 ^ (i + k - 1))) % 2]
\* the 33 bits of a PTS/DTS field: 3, 8, 7, 8 and 7 bits between the markers
RawTimestamp ==
    Norm(ByteBits(raw[5], 1, 7) \o ByteBits(raw[4], 0, 7) \o ByteBits(raw[3], 1, 7)
           \o ByteBits(raw[2], 0, 7) \o ByteBits(raw[1], 1, 3))
\* the 33 bits of the base and the 9 bits of the extension of a PCR field
RawPcrBase ==
    Norm(ByteBits(raw[5], 7, 7) \o ByteBits(raw[4], 0, 7) \o ByteBits(raw[3], 0, 7)
           \o ByteBits(raw[2], 0, 7) \o ByteBits(raw[1], 0, 7))
RawPcrExt == Norm(ByteBits(raw[6], 0, 7) \o ByteBits(raw[5], 0, 0))
\* floor(v * 10^9 / den)
FloorNs(v, den) == BigDiv(BigMul(v, Big(1000000000)), den).q

(***************************************************************************)
(* C22: the nanoseconds reported for a 33-bit PTS/DTS value V are          *)
(* floor(V * 10^9 / 90000), and for a PCR with 33-bit base B and 9-bit     *)
(* extension E they are floor((B * 300 + E) * 10^9 / 27000000).            *)
(***************************************************************************)
C22_TimeBaseExact ==
    result.kind = "Ns" =>
        IF Len(raw) = TIMESTAMP_SZ
          THEN result.ns = FloorNs(RawTimestamp, 90000)
          ELSE result.ns = FloorNs(BigAdd(BigMul(RawPcrBase, Big(300)), RawPcrExt), 27000000)

\* the PTS 0x1_5555_5555 gives 63629145122222 ns, and the largest PCR is among the inputs
C22_Witness ==
    /\ result.kind = "Ns"
    /\ raw = TimestampBuf(5, 85, 42, 170, 85)
    /\ RawTimestamp = BigAdd(Shl(Big(5), 30), Big(1431655765 % (2 ^ 30)))
    /\ result.ns = BigAdd(BigMul(Big(63629145), Big(1000000)), Big(122222))
    /\ PcrBuf(255, 255, 255, 255, 1, 511) \in PcrBufs

(***************************************************************************)
(* C23: a PUSI packet on an accumulator PID whose payload does not start   *)
(* with 00 00 01 makes demux return the error PESStartCode, leaves the     *)
(* accumulator as it is and emits nothing.                                 *)
(***************************************************************************)
C23_BadStartCodeRejected ==
    [][(EsStep /\ RawHasPayload' /\ RawPusi' /\ Len(RawPayload') >= 3
          /\ SubSeq(RawPayload', 1, 3) # <<0, 0, 1>>)
       => /\ result'.kind = "PESStartCode"
          /\ packets'[RawPid'] = packets[RawPid']
          /\ emitted' = <<>>]_vars

(***************************************************************************)
(* C24: a PUSI packet on a PAT, PMT, SDT or EIT PID whose section header   *)
(* has section_syntax_indicator 0 makes demux fail with                    *)
(* SectionSyntaxIndicatorNotSet, and no table or section is created or     *)
(* changed.                                                                *)
(***************************************************************************)
C24_SyntaxIndicatorRequired ==
    [][(/\ calls' = calls + 1
        /\ RawSectionHead'
        /\ RawPidValue' \in {PidPAT, PidSDT, PidEIT} \cup RegistryPids
        /\ RawSectionByte(1)' < 128)
       => /\ result'.kind = "SectionSyntaxIndicatorNotSet"
          /\ <<pat, pmt, sdt, eit>>' = <<pat, pmt, sdt, eit>>]_vars

(***************************************************************************)
(* C25: a demux call that returns an error changes nothing of the demuxer: *)
(* the byte offset, the routing tables, the PMT PID registry and the ES    *)
(* accumulators are as before the call.                                    *)
(***************************************************************************)
C25_ErrorLeavesStateAlone ==
    [][(calls' = calls + 1 /\ result'.kind \notin {"Ok", "Panic"})
       => UNCHANGED <<offset, pat, pmt, sdt, eit, pmt_pids, packets>>]_vars

(***************************************************************************)
(* C26: demux of a 188-byte buffer that starts with 0x47 returns Ok or an  *)
(* error value in every reachable state; it never aborts on a read beyond  *)
(* the bytes it was given.                                                 *)
(***************************************************************************)
C26_NeverPanics == RawFramed => result.kind # "Panic"

\* the decimal value of a byte read as two BCD digits
BcdValue(byte) == 10 * (byte \div 16) + (byte % 16)

(***************************************************************************)
(* C27: from_bytes_into_duration answers every byte string: shorter than   *)
(* 3 bytes gives the error AnnexCBuf(len, 3); otherwise the result is a    *)
(* duration of hh * 3600 + mm * 60 + ss whole seconds, where hh, mm and ss *)
(* are the first three bytes read as BCD (high nibble * 10 + low nibble).  *)
(***************************************************************************)
C27_DurationTotalBcd ==
    calls = 1 =>
        IF Len(raw) < 3
          THEN result = [kind |-> "AnnexCBuf", actual |-> Len(raw), expected |-> 3]
          ELSE result = [kind |-> "Duration",
                         secs |-> BcdValue(raw[1]) * 3600 + BcdValue(raw[2]) * 60
                                    + BcdValue(raw[3]),
                         nanos |-> 0]
\* 0x23 0x59 0xFF is read as 23 h, 59 min and 165 s
C27_Witness ==
    /\ calls = 1
    /\ raw = <<35, 89, 255>>
    /\ result.kind = "Duration"
    /\ result.secs = 23 * 3600 + 59 * 60 + 165

(***************************************************************************)
(* C28: the sections of two registered PMT PIDs are reassembled apart: a   *)
(* packet without PUSI on PMT PID A adds no byte to the section that a     *)
(* PUSI packet on another PMT PID B opened in the call before.             *)
(***************************************************************************)
C28_PmtPidsReassembledApart ==
    [][(/\ calls' = calls + 1
        /\ RawFramed /\ RawPusi /\ RawPidValue \in RegistryPids
        /\ result.kind = "Ok" /\ pmt.current # None
        /\ RawFramed' /\ ~RawPusi' /\ RawPidValue' \in RegistryPids
        /\ RawPidValue' # RawPidValue)
       => Deref(pmt', pmt.current) = Deref(pmt, pmt.current)]_vars

\* the elementary-stream PIDs listed by the PMT sections stored in t
PmtListed(t) ==
    UNION {{PMT_section_pids(t.map[id].sections[i].buf).pids[j] :
               j \in DOMAIN PMT_section_pids(t.map[id].sections[i].buf).pids} :
           <<id, i>> \in {x \in (DOMAIN t.map) \X (1..MaxCalls) :
                             x[2] <= Len(t.map[x[1]].sections)}}
\* the PIDs the demuxer has learned: the fixed PSI PIDs, the registry, the accumulators
LearnedPids == {PidPAT, PidSDT, PidEIT} \cup RegistryPids \cup {p[2] : p \in DOMAIN packets}

(***************************************************************************)
(* C29: events follow the order in which the topology is learned.  A call  *)
(* emits on_table for a PMT only for a packet on a PID that a PAT packet   *)
(* had registered before (the registry changes in calls on PID 0 only); an *)
(* accumulator is created only by a packet on a registered PMT PID, for a  *)
(* PID listed by a stored PMT section, and it is created empty; on_packet  *)
(* is emitted, and bytes are accumulated, only for a PID that had an       *)
(* accumulator before the call; a packet on a PID not learned yet leaves   *)
(* the tables, the registry and the accumulators as they were and emits    *)
(* nothing.                                                                *)
(***************************************************************************)
C29_TopologyLearningOrder ==
    [][(calls' = calls + 1 /\ RawFramed')
       => /\ (\E e \in TableEvents' : e.id[1] = "PMT") => RawPidValue' \in RegistryPids
          /\ RegistryPids' # RegistryPids => RawPidValue' = PidPAT
          /\ \A p \in DOMAIN packets' \ DOMAIN packets :
                /\ RawPidValue' \in RegistryPids
                /\ p \in PmtListed(pmt')
                /\ packets'[p].buf = <<>>
          /\ \A i \in DOMAIN emitted' :
                emitted'[i].kind = "packet" =>
                    emitted'[i].pid = RawPid' /\ RawPid' \in DOMAIN packets
          /\ \A p \in DOMAIN packets' \cap DOMAIN packets :
                packets'[p] # packets[p] => p = RawPid'
          /\ RawPidValue' \notin LearnedPids
                => /\ UNCHANGED <<pat, pmt, sdt, eit, pmt_pids, packets>>
                   /\ emitted' = <<>>]_vars
\* an access unit of a learned elementary stream is emitted
C29_Witness ==
    /\ RawFramed
    /\ RawPid \in DOMAIN packets
    /\ RegistryPids # {}
    /\ \E i \in DOMAIN emitted : emitted[i].kind = "packet" /\ emitted[i].pid = RawPid

(***************************************************************************)
(* C30: PMT PIDs are registered from completed PATs only: a call on PID 0  *)
(* that leaves the PAT section it writes to still short of its size adds   *)
(* no PID to the registry.                                                 *)
(***************************************************************************)
C30_RegisteredFromCompletePat ==
    [][(/\ calls' = calls + 1
        /\ RawFramed' /\ RawPidValue' = PidPAT
        /\ pat'.current # None
        /\ Len(Deref(pat', pat'.current).buf) < Deref(pat', pat'.current).sz)
       => RegistryPids' = RegistryPids]_vars

\* the section bytes a PUSI packet holds, cut to the size its header declares
RawSectionPart ==
    SubSeq(raw, RawSectionStart + 1,
           IF RawSectionStart + 3 + RawSectionLength <= 188
             THEN RawSectionStart + 3 + RawSectionLength ELSE 188)

(***************************************************************************)
(* C31: a PUSI packet on the PAT PID for a SubtableID and section_number   *)
(* that already have a section refreshes that section: the table keeps     *)
(* its sections, none is added, the section's buffer is exactly the bytes  *)
(* of the new packet, its size is the newly declared 3 + section_length    *)
(* whatever the old size was, the other sections are untouched, and it is  *)
(* the current section of the PAT routing table.                           *)
(***************************************************************************)
C31_PusiRefreshesSection ==
    [][(/\ calls' = calls + 1
        /\ RawSectionHead' /\ RawPidValue' = PidPAT
        /\ result'.kind = "Ok"
        /\ RawPatId' \in DOMAIN pat.map
        /\ \E i \in 1..Len(pat.map[RawPatId'].sections) :
               pat.map[RawPatId'].sections[i].number = RawSectionByte(6)')
       => /\ Len(pat'.map[RawPatId'].sections) = Len(pat.map[RawPatId'].sections)
          /\ \A i \in 1..Len(pat.map[RawPatId'].sections) :
                IF pat.map[RawPatId'].sections[i].number = RawSectionByte(6)'
                  THEN /\ pat'.map[RawPatId'].sections[i].number = RawSectionByte(6)'
                       /\ pat'.map[RawPatId'].sections[i].sz = 3 + RawSectionLength'
                       /\ pat'.map[RawPatId'].sections[i].buf = RawSectionPart'
                  ELSE pat'.map[RawPatId'].sections[i] = pat.map[RawPatId'].sections[i]
          /\ pat'.current = <<RawPatId', RawSectionByte(6)'>>]_vars
\* the table was created by PktPatA (last_section_number 0); its section 0
\* now holds the shorter section of PktPatARefresh, which announces 1
C31_Witness ==
    /\ raw = PktPatARefresh
    /\ result.kind = "Ok"
    /\ pat.current = <<RawPatId, 0>>
    /\ pat.map[RawPatId].last_section_number = 0
    /\ Len(pat.map[RawPatId].sections) = 1
    /\ pat.map[RawPatId].sections[1].buf = RawSectionBytes
    /\ pat.map[RawPatId].sections[1].buf[8] = 1
    /\ pat.map[RawPatId].sections[1].sz < Len(SecPatA)

\* what the sink is given by the second of two further calls, with ES packets
\* b1 and b2, on the demuxer D
LaterEvents(D, b1, b2) == demux(demux(D, b1, <<>>).d, b2, <<>>).events

(***************************************************************************)
(* C32: a demux call that returns an error leaves the routing tables with  *)
(* their current-section references, the registry and the accumulators as  *)
(* they were and emits nothing, so the access units emitted for the        *)
(* packets that follow are those emitted had the rejected packet never     *)
(* been fed.                                                               *)
(***************************************************************************)
C32_RejectedPacketLeavesNoTrace ==
    [][(calls' = calls + 1 /\ result'.kind \notin {"Ok", "Panic"})
       => /\ UNCHANGED <<pat, pmt, sdt, eit, pmt_pids, packets>>
          /\ emitted' = <<>>
          /\ \A b1, b2 \in {PktEsStart, PktEsStartB} :
                LaterEvents(Demuxer', b1, b2) = LaterEvents(Demuxer, b1, b2)]_vars

\* the routing table the PID of the last buffer is reassembled in, "" when none
PsiKindOf(pidv, registry) ==
    IF pidv = PidPAT THEN "PAT"
    ELSE IF pidv = PidSDT THEN "SDT"
    ELSE IF pidv = PidEIT THEN "EIT"
    ELSE IF pidv \in registry THEN "PMT"
    ELSE ""
\* the call just made was given a packet without PUSI on a PSI PID whose
\* routing table had no current section
MidSectionStep ==
    /\ calls' = calls + 1
    /\ RawFramed' /\ ~RawPusi'
    /\ PsiKindOf(RawPidValue', RegistryPids) # ""
    /\ TablesOfKind(PsiKindOf(RawPidValue', RegistryPids)).current = None

(***************************************************************************)
(* C33 as stated: a packet without PUSI on a PSI PID whose routing table   *)
(* has no current section is dropped silently: demux returns Ok, no table  *)
(* or section is created, nothing is appended and nothing is emitted.      *)
(***************************************************************************)
C33_MidSectionDroppedOk ==
    [][MidSectionStep
       => /\ result' = Ok
          /\ UNCHANGED <<pat, pmt, sdt, eit>>
          /\ emitted' = <<>>]_vars

(***************************************************************************)
(* C33 amended: such a packet creates no table or section, appends nothing *)
(* and emits nothing; demux returns Ok when the packet has at least one    *)
(* payload byte, and Buf(188, 188) when its adaptation field leaves none.  *)
(***************************************************************************)
C33_MidSectionDropped ==
    [][MidSectionStep
       => /\ result' = IF RawHasPayload' THEN Ok ELSE ErrBuf(188, 188)
          /\ UNCHANGED <<pat, pmt, sdt, eit>>
          /\ emitted' = <<>>]_vars
\* the continuation of an SDT section came first and left no trace
C33_Witness ==
    /\ calls = 1
    /\ raw = PktSdt1Tail
    /\ ~RawPusi /\ RawHasPayload
    /\ result = Ok
    /\ sdt = Tables_default
    /\ emitted = <<>>

\* the routing table of a well-known PSI PID
WellKnownKind(pidv) ==
    IF pidv = PidPAT THEN "PAT" ELSE IF pidv = PidSDT THEN "SDT" ELSE "EIT"

(***************************************************************************)
(* C34: a packet on PID 0x0000, 0x0011 or 0x0012 is reassembled in the     *)
(* routing table of PAT, SDT or EIT and nowhere else, also when a PAT has  *)
(* registered that PID value as a program_map PID or a PMT has listed it   *)
(* as an elementary stream: the PMT routing table, the accumulators and    *)
(* the routing tables of the other kinds stay as they were, every event    *)
(* is an on_table of that kind, and a whole section the packet holds is    *)
(* the current section of that kind's routing table afterwards.            *)
(***************************************************************************)
C34_WellKnownPidsFirst ==
    [][(/\ calls' = calls + 1
        /\ RawFramed'
        /\ RawPidValue' \in {PidPAT, PidSDT, PidEIT})
       => /\ pmt' = pmt
          /\ packets' = packets
          /\ \A k \in Kinds \ {WellKnownKind(RawPidValue')} :
                TablesOfKind(k)' = TablesOfKind(k)
          /\ \A i \in DOMAIN emitted' :
                /\ emitted'[i].kind = "table"
                /\ emitted'[i].id[1] = WellKnownKind(RawPidValue')
          /\ \A k \in Kinds :
                (k = WellKnownKind(RawPidValue') /\ RawWholeSection' /\ result'.kind = "Ok")
                => /\ TablesOfKind(k)'.current # None
                   /\ Deref(TablesOfKind(k)', TablesOfKind(k)'.current).buf
                        = RawSectionBytes']_vars
\* the EIT PID is in the registry, the SDT PID has an accumulator, and a
\* PMT section sent on the EIT PID was stored as an EIT section
C34_Witness ==
    /\ raw = PktPmtOnEit
    /\ result = Ok
    /\ PidEIT \in RegistryPids
    /\ \E p \in DOMAIN packets : p[2] = PidSDT
    /\ eit.current # None
    /\ Deref(eit, eit.current).buf = SecPmt
    /\ \A id \in DOMAIN pmt.map : pmt.map[id].sections[1].buf # SecPmt

\* the 16-bit big-endian field at offset i of a section buffer
SectionField16(buf, i) == buf[i + 1] * 256 + buf[i + 2]

(***************************************************************************)
(* C35: the SubtableID of an SDT section is (table_id, transport_stream_id,*)
(* original_network_id, version) and that of an EIT section (table_id,     *)
(* service_id, transport_stream_id, original_network_id, version), every   *)
(* id a 16-bit big-endian field of the section header: each stored         *)
(* section whose header is complete lies in the table named by the fields  *)
(* of its own bytes, so sections that differ in one of them lie in         *)
(* different tables.                                                       *)
(***************************************************************************)
C35_SubtableIdFields16 ==
    /\ \A id \in DOMAIN sdt.map : \A i \in 1..Len(sdt.map[id].sections) :
          Len(sdt.map[id].sections[i].buf) >= 10 =>
              /\ id[3] = SectionField16(sdt.map[id].sections[i].buf, 3)
              /\ id[4] = SectionField16(sdt.map[id].sections[i].buf, 8)
    /\ \A id \in DOMAIN eit.map : \A i \in 1..Len(eit.map[id].sections) :
          Len(eit.map[id].sections[i].buf) >= 12 =>
              /\ id[3] = SectionField16(eit.map[id].sections[i].buf, 3)
              /\ id[4] = SectionField16(eit.map[id].sections[i].buf, 8)
              /\ id[5] = SectionField16(eit.map[id].sections[i].buf, 10)

(***************************************************************************)
(* C36 as stated: the payload of an accepted packet starts at              *)
(* 4 + (adaptation present ? 1 + L : 0), L being the byte at offset 4.     *)
(* buf_payload_pes returns the bytes from there, PUSI set or not.          *)
(* buf_payload_section returns the same bytes when PUSI is clear, and the  *)
(* bytes after a further 1 + pointer_field when PUSI is set, pointer_field *)
(* being the byte at the payload start.                                    *)
(***************************************************************************)
C36_PayloadStartAlways ==
    calls = 1 =>
        /\ result.kind = "buf_payload_pes"
              => result.res = Ok /\ result.buf = SubSeq(raw, RawPayloadStart + 1, 188)
        /\ (result.kind = "buf_payload_section" /\ ~RawPusi)
              => result.res = Ok /\ result.buf = SubSeq(raw, RawPayloadStart + 1, 188)
        /\ (result.kind = "buf_payload_section" /\ RawPusi)
              => result.res = Ok /\ result.buf = SubSeq(raw, RawSectionStart + 1, 188)

(***************************************************************************)
(* C36 amended: with the payload start as stated, buf_payload_pes, and     *)
(* buf_payload_section when PUSI is clear, return the bytes from the       *)
(* payload start when it lies below 188 and Buf(188, 188) when it does     *)
(* not.  buf_payload_section with PUSI set returns the bytes after a       *)
(* further 1 + pointer_field when that offset lies below 188 and           *)
(* Buf(188, 188) when it does not; when the payload start itself is 188 or *)
(* more, the read of pointer_field is out of range and the call aborts.    *)
(***************************************************************************)
C36_PayloadStart ==
    calls = 1 =>
        /\ (result.kind = "buf_payload_pes" \/ (result.kind = "buf_payload_section" /\ ~RawPusi))
              => IF RawPayloadStart < 188
                   THEN result.res = Ok /\ result.buf = SubSeq(raw, RawPayloadStart + 1, 188)
                   ELSE result.res = ErrBuf(188, 188)
        /\ (result.kind = "buf_payload_section" /\ RawPusi)
              => IF RawPayloadStart >= 188 THEN result.res = Panic
                 ELSE IF RawSectionStart < 188
                   THEN result.res = Ok /\ result.buf = SubSeq(raw, RawSectionStart + 1, 188)
                   ELSE result.res = ErrBuf(188, 188)
\* an adaptation field of 1 + 7 bytes, then pointer_field 3
C36_Witness ==
    /\ calls = 1
    /\ result.kind = "buf_payload_section"
    /\ RawPusi
    /\ raw[4] = 48 /\ raw[5] = 7 /\ raw[13] = 3
    /\ result.res = Ok
    /\ result.buf = SubSeq(raw, 17, 188)
    /\ Len(result.buf) = 172

(***************************************************************************)
(* C37: a PUSI packet with payload on an ES PID sets the accumulator's     *)
(* offset to global offset + packet length - payload length, whatever the  *)
(* accumulator's offset was before.  The global offset is taken as the     *)
(* call has advanced it.                                                   *)
(***************************************************************************)
C37_OffsetIsStreamPosition ==
    [][(EsStep /\ RawPusi' /\ RawHasPayload' /\ result'.kind = "Ok")
       => packets'[RawPid'].offset = offset' + 188 - Len(RawPayload')]_vars

(***************************************************************************)
(* C38: after n demux calls on 188-byte packets the global byte offset is  *)
(* 188 * n, wherever the packets were routed.                              *)
(***************************************************************************)
C38_OffsetCountsEachPacketOnce == offset = 188 * calls

(***************************************************************************)
(* C39: every section buffer stored in the demuxer holds at most 1021      *)
(* bytes, whatever section_length the section header carries.              *)
(***************************************************************************)
C39_SectionBufferBounded ==
    \A s \in StoredSections : Len(s.buf) <= HEADER_MAX_SECTION_LENGTH

(***************************************************************************)
(* C40: Packet::pcr returns a PCR only when the adaptation field is        *)
(* present, its length L is at least 1 and bit 4 of the flags byte is set; *)
(* for L = 0 it returns None; the flags byte and the 6 PCR bytes of a      *)
(* returned PCR lie inside the 1 + L bytes of the adaptation field, which  *)
(* start at offset 4.                                                      *)
(***************************************************************************)
C40_PcrFromAdaptationField ==
    (calls = 1 /\ result.kind = "pcr") =>
        /\ (Header_got_adaptation(raw) /\ raw[5] = 0) => (result.res = Ok /\ ~result.some)
        /\ result.some =>
              /\ Header_got_adaptation(raw)
              /\ raw[5] >= 1
              /\ (raw[6] \div 16) % 2 = 1
              /\ Adaptation_HEADER_FULL_SZ + PCR_SZ <= Adaptation_HEADER_SZ + raw[5]
              /\ SubSeq(result.buf, 1, PCR_SZ) = SubSeq(raw, 7, 12)

====
